---- MODULE Spec2Model ----
(***************************************************************************)
(* The song catalog service: the request handlers of SongViewSet           *)
(* (songs/views.py), the Song model (songs/models.py), the serializers'    *)
(* validation (songs/serializers.py) and the standalone SongDataLoader     *)
(* (songs/data_loader.py), over a shared store and a shared cache.         *)
(*                                                                         *)
(* Every request is handled by its own worker; a worker's steps are the    *)
(* handler's store and cache calls, and the steps of different workers     *)
(* interleave.  Numbers with decimals are kept as integers: ratings sent   *)
(* by a client in thousandths (4.5 is 4500), stored ratings in hundredths  *)
(* (DecimalField with two decimal places, 4.5 is 450), unit-interval audio *)
(* features in hundredths (0.5 is 50).  Text is a sequence of characters.  *)
(***************************************************************************)
EXTENDS Integers, Sequences, FiniteSets, TLC

\* ---------------------------------------------------------------- bounds
NumWorkers == 2
MaxClock == 400
TickStep == 100
MaxRequests == 3
MaxId == 2
MaxRows == 2

Workers == 1..NumWorkers
Ids == 1..MaxId

\* ------------------------------------------------------ program constants
RatingMin == 0
RatingMax == 5000
StoredRatingMax == 500
UnitMax == 100
ListTTL == 300
RandRatingLo == 1
RandRatingHi == 5
RandPlayLo == 1
RandPlayHi == 100

\* An optional value: None is the empty sequence, a value v is <<v>>.
None == <<>>
Some(v) == <<v>>
IsSome(x) == x # <<>>
Val(x) == x[1]

\* ------------------------------------------------------------------ text
Digits == <<"0", "1", "2", "3", "4", "5", "6", "7", "8", "9">>
IsDigit(c) == \E i \in 1..Len(Digits) : Digits[i] = c
DigitVal(c) == (CHOOSE i \in 1..Len(Digits) : Digits[i] = c) - 1

RECURSIVE NatOf(_)
NatOf(s) == IF s = <<>> THEN 0
            ELSE NatOf(SubSeq(s, 1, Len(s) - 1)) * 10 + DigitVal(s[Len(s)])

\* The first three decimals of a fraction's digits, in thousandths.
FracThousandths(s) ==
    LET d(i) == IF i <= Len(s) THEN DigitVal(s[i]) ELSE 0
    IN  d(1) * 100 + d(2) * 10 + d(3)

Lower(c) == CASE c = "A" -> "a"
              [] c = "T" -> "t"
              [] c = "S" -> "s"
              [] c = "B" -> "b"
              [] c = "M" -> "m"
              [] c = "U" -> "u"
              [] c = "X" -> "x"
              [] OTHER -> c
LowerSeq(s) == [i \in 1..Len(s) |-> Lower(s[i])]

\* q occurs in s as a contiguous run, ignoring case (icontains).
IContains(s, q) ==
    \E i \in 1..(Len(s) - Len(q) + 1) :
        SubSeq(LowerSeq(s), i, i + Len(q) - 1) = LowerSeq(q)

\* str.strip() of the characters modelled: leading and trailing blanks go.
RECURSIVE Strip(_)
Strip(s) == IF s = <<>> THEN s
            ELSE IF s[1] = " " THEN Strip(Tail(s))
            ELSE IF s[Len(s)] = " " THEN Strip(SubSeq(s, 1, Len(s) - 1))
            ELSE s

\* ------------------------------------------------------- float(rating)
\* What float() makes of the "rating" of a request body.  A body value is
\* [kind, num, text]: a JSON number (num, in thousandths), a JSON boolean
\* (num is 1 or 0), a string (text) or a list.  The result is
\* [ok, nan, val]: ok is FALSE where float() raises ValueError or TypeError.
FloatErr == [ok |-> FALSE, nan |-> FALSE, val |-> 0]
FloatNum(v) == [ok |-> TRUE, nan |-> FALSE, val |-> v]
FloatNaN == [ok |-> TRUE, nan |-> TRUE, val |-> 0]

ParseFloat(text) ==
    LET s == Strip(text)
        signed == Len(s) > 0 /\ (s[1] = "-" \/ s[1] = "+")
        sgn == IF Len(s) > 0 /\ s[1] = "-" THEN -1 ELSE 1
        t == IF signed THEN Tail(s) ELSE s
        dots == {i \in 1..Len(t) : t[i] = "."}
        d == IF dots = {} THEN Len(t) + 1 ELSE CHOOSE i \in dots : TRUE
        ip == SubSeq(t, 1, d - 1)
        fp == SubSeq(t, d + 1, Len(t))
        wellFormed == /\ Cardinality(dots) <= 1
                      /\ \A i \in 1..Len(t) : i \in dots \/ IsDigit(t[i])
                      /\ Len(ip) + Len(fp) > 0
    IN  IF LowerSeq(t) = <<"n", "a", "n">> THEN FloatNaN
        ELSE IF wellFormed THEN FloatNum(sgn * (NatOf(ip) * 1000 + FracThousandths(fp)))
        ELSE FloatErr

ToFloat(x) == CASE x.kind = "num" -> FloatNum(x.num)
                [] x.kind = "bool" -> FloatNum(x.num * 1000)
                [] x.kind = "str" -> ParseFloat(x.text)
                [] OTHER -> FloatErr

\* A range check that forgets the upper bound.
InRatingRangeNoMax(f) == ~f.nan /\ RatingMin <= f.val

\* 0.0 <= rating <= 5.0; a NaN compares false with everything.
InRatingRange(f) == ~f.nan /\ RatingMin <= f.val /\ f.val <= RatingMax

\* The DecimalField keeps two decimal places: thousandths are rounded to
\* hundredths, halves to the even neighbour.
ToStoredRating(v) ==
    LET q == v \div 10
        r == v % 10
    IN  IF r > 5 \/ (r = 5 /\ q % 2 = 1) THEN q + 1 ELSE q

\* ------------------------------------------------------------- Song
\* A stored song.  rating, danceability, key and duration are optional.
\* danceability stands for the six unit-interval audio features, which the
\* model declares alike and the loaders treat alike or more loosely.
\* album and lyrics are optional text no request body of the model sets.
Song(title, artist, rating, plays, dance, key, duration) ==
    [title |-> title, artist |-> artist, album |-> None, lyrics |-> None,
     rating |-> rating, play_count |-> plays, danceability |-> dance,
     key |-> key, duration |-> duration]

\* The validators the Song model declares on its fields.
RatingValid(r) == r = None \/ (0 <= Val(r) /\ Val(r) <= StoredRatingMax)
UnitValid(x) == x = None \/ (0 <= Val(x) /\ Val(x) <= UnitMax)

\* ------------------------------------------------------- serializers
\* A create or update body: each field is <<>> (not sent) or <<value>>.
\* rating is sent in thousandths, danceability in hundredths.
Body(title, artist, rating, dance) ==
    [title |-> title, artist |-> artist, rating |-> rating, danceability |-> dance]

\* serializer.is_valid(): required fields (unless partial), no blank text,
\* rating within 0.0..5.0 with at most two decimal places, unit features
\* within 0.0..1.0.
IsValid(body, partial) ==
    /\ partial \/ (IsSome(body.title) /\ IsSome(body.artist))
    /\ IsSome(body.title) => Val(body.title) # <<>>
    /\ IsSome(body.artist) => Val(body.artist) # <<>>
    /\ IsSome(body.rating) =>
          /\ RatingMin <= Val(body.rating) /\ Val(body.rating) <= RatingMax
          /\ Val(body.rating) % 10 = 0
    /\ IsSome(body.danceability) =>
          0 <= Val(body.danceability) /\ Val(body.danceability) <= UnitMax

BodyRating(body) == IF IsSome(body.rating) THEN Some(Val(body.rating) \div 10) ELSE None

\* SongCreateSerializer.save(): a new instance; play_count is not a field of
\* the serializer and takes the model's default 0.
CreateInstance(body) ==
    Song(Val(body.title), Val(body.artist), BodyRating(body), 0,
         body.danceability, None, None)

\* SongUpdateSerializer.save() with partial=True: the fields sent are set on
\* the instance that get_object() loaded, the others keep the loaded values.
UpdateInstance(inst, body) ==
    [inst EXCEPT
       !.title = IF IsSome(body.title) THEN Val(body.title) ELSE @,
       !.artist = IF IsSome(body.artist) THEN Val(body.artist) ELSE @,
       !.rating = IF IsSome(body.rating) THEN BodyRating(body) ELSE @,
       !.danceability = IF IsSome(body.danceability) THEN body.danceability ELSE @]

\* ---------------------------------------------------------- cache keys
\* dict(request.GET.items()): the query's pairs as a mapping, the last value
\* of a repeated name winning.
RECURSIVE QueryDict(_)
QueryDict(query) ==
    IF query = <<>> THEN <<>>
    ELSE LET rest == QueryDict(SubSeq(query, 1, Len(query) - 1))
             last == query[Len(query)]
         IN  [n \in (DOMAIN rest) \cup {last[1]} |->
                 IF n = last[1] THEN last[2] ELSE rest[n]]

\* The action names as text, as they enter the dumped mapping.
ActionText(action) == CASE action = "list" -> <<"l", "i", "s", "t">>
                         [] action = "search" -> <<"s", "e", "a", "r", "c", "h">>
                         [] OTHER -> <<"s", "t", "a", "t", "s">>

\* _get_cache_key dumping the pairs in the order the client gave them,
\* without the mapping and without sort_keys.
GetCacheKeyUnsorted(query, action) ==
    [action |-> action, hash |-> Append(query, <<"action", ActionText(action)>>)]

\* _get_cache_key: the action is stored in the mapping under "action", the
\* mapping is dumped with sorted keys and digested.  The digest is taken to
\* be injective, so the key holds the mapping itself.
GetCacheKey(query, action) ==
    LET params == QueryDict(query)
        withAction == [n \in (DOMAIN params) \cup {"action"} |->
                          IF n = "action" THEN ActionText(action) ELSE params[n]]
    IN  [action |-> action, hash |-> withAction]

\* A key matches the glob "songs_<family>_*".
MatchesPattern(key, family) == key.action = family

\* cache.delete_pattern(pattern)
DeletePattern(c, family) ==
    [k \in {x \in DOMAIN c : ~MatchesPattern(x, family)} |-> c[k]]

\* _clear_related_caches: the list, search and stats families go.
ClearRelatedCaches(c) ==
    DeletePattern(DeletePattern(DeletePattern(c, "list"), "search"), "stats")

\* cache.clear()
ClearAll(c) == <<>>

\* ------------------------------------------------------ read payloads
\* The elements of S as a sequence, the one before[x, y] puts first in front.
RECURSIVE OrderedBy(_, _)
OrderedBy(S, before) ==
    IF S = {} THEN <<>>
    ELSE LET m == CHOOSE x \in S : \A y \in S \ {x} : before[x, y]
         IN  <<m>> \o OrderedBy(S \ {m}, before)

\* A descending order puts the songs without a rating last.
RatingRank(r) == IF r = None THEN -1 ELSE Val(r)

\* SongListSerializer
ListItem(st, i) ==
    [id |-> i, title |-> st[i].title, artist |-> st[i].artist,
     rating |-> st[i].rating, play_count |-> st[i].play_count,
     danceability |-> st[i].danceability]

\* SongSerializer
FullItem(st, i) ==
    [id |-> i, title |-> st[i].title, artist |-> st[i].artist,
     rating |-> st[i].rating, play_count |-> st[i].play_count,
     danceability |-> st[i].danceability, key |-> st[i].key,
     duration |-> st[i].duration, album |-> st[i].album,
     lyrics |-> st[i].lyrics]

\* A response body of a list-style endpoint: with pagination the envelope
\* {count, results}, without it the bare list of results.
Payload(paged, results) ==
    [paginated |-> paged, count |-> Len(results), results |-> results]
NoPayload == Payload(FALSE, <<>>)

\* Python's truth of a payload: an envelope is a non-empty dict, a bare list
\* is true unless it is empty.
Truthy(p) == p.paginated \/ p.results # <<>>

\* filter_queryset + paginate_queryset + the list serializer: the songs of
\* the artist asked for (all without an artist parameter), by rating
\* descending, then the newest first.
ListPayload(st, query, paged) ==
    LET params == QueryDict(query)
        hits == {i \in DOMAIN st :
                    "artist" \in DOMAIN params => st[i].artist = params["artist"]}
        before == [a \in hits, b \in hits |->
            \/ RatingRank(st[a].rating) > RatingRank(st[b].rating)
            \/ RatingRank(st[a].rating) = RatingRank(st[b].rating) /\ a > b]
        ids == OrderedBy(hits, before)
    IN  Payload(paged, [n \in 1..Len(ids) |-> ListItem(st, ids[n])])

\* order_by('-column') alone: the orders of the rows of S in which the rank
\* never rises; rows of equal rank come in any order.
Descending(S, rank) ==
    {s \in [1..Cardinality(S) -> S] :
        /\ \A i \in DOMAIN s, j \in DOMAIN s : i # j => s[i] # s[j]
        /\ \A i \in DOMAIN s, j \in DOMAIN s : i < j => rank[s[i]] >= rank[s[j]]}

\* top_rated: the songs with a rating, by rating descending; SongSerializer.
TopRatedPayloads(st, paged) ==
    LET hits == {i \in DOMAIN st : st[i].rating # None}
        rank == [i \in hits |-> Val(st[i].rating)]
    IN  {Payload(paged, [n \in DOMAIN ids |-> FullItem(st, ids[n])]) :
            ids \in Descending(hits, rank)}

\* most_played: every song, by play_count descending; SongSerializer.
MostPlayedPayloads(st, paged) ==
    LET rank == [i \in DOMAIN st |-> st[i].play_count]
    IN  {Payload(paged, [n \in DOMAIN ids |-> FullItem(st, ids[n])]) :
            ids \in Descending(DOMAIN st, rank)}

\* column__icontains=q on a nullable text column: NULL matches nothing.
TextContains(text, q) == IsSome(text) /\ IContains(Val(text), q)

\* search: q stripped; no q, every song; else the songs whose title, artist
\* or album contains q ignoring case; the newest first (Meta.ordering).
SearchPayload(st, query, paged) ==
    LET params == QueryDict(query)
        q == IF "q" \in DOMAIN params THEN Strip(params["q"]) ELSE <<>>
        hits == IF q = <<>> THEN DOMAIN st
                ELSE {i \in DOMAIN st :
                         \/ IContains(st[i].title, q)
                         \/ IContains(st[i].artist, q)
                         \/ TextContains(st[i].album, q)}
        before == [a \in hits, b \in hits |-> a > b]
        ids == OrderedBy(hits, before)
    IN  Payload(paged, [n \in 1..Len(ids) |-> FullItem(st, ids[n])])

\* ------------------------------------------------------- the data file
\* One row of the columnar playlist file, read across its attribute maps.
\* key is [isInt, val]: a value the integer column cannot take makes
\* song.save() raise.
Row(title, dance, key, ms) ==
    [title |-> title, danceability |-> dance, key |-> key, duration_ms |-> ms]
IntKey(n) == [isInt |-> TRUE, val |-> n]
TextKey == [isInt |-> FALSE, val |-> 0]

RowGood == Row(<<"T">>, 50, IntKey(5), 1999)
RowHigh == Row(<<"S">>, 150, IntKey(0), 3000)
RowBadKey == Row(<<"T">>, 50, TextKey, 1000)
RowNegative == Row(<<"S">>, -10, IntKey(7), 2500)
Rows == {RowGood, RowHigh, RowBadKey, RowNegative}

RECURSIVE SeqsUpTo(_, _)
SeqsUpTo(S, n) ==
    IF n = 0 THEN {<<>>}
    ELSE LET shorter == SeqsUpTo(S, n - 1)
         IN  shorter \cup {Append(s, x) : s \in {t \in shorter : Len(t) = n - 1}, x \in S}

Files == SeqsUpTo(Rows, MaxRows)

\* random.randint(lo, hi): the model draws the two extremes.
RandInt(lo, hi) == {lo, hi}

\* timedelta(seconds=int(duration_ms) // 1000)
ParseDuration(ms) == ms \div 1000

\* f"Artist {i+1}" and f"Album {i+1}", the placeholders of both loaders.
ArtistOf(i) == <<"A", "r", "t", "i", "s", "t", " ", Digits[((i + 1) % 10) + 1]>>
AlbumOf(i) == <<"A", "l", "b", "u", "m", " ", Digits[((i + 1) % 10) + 1]>>

\* A load that takes every song's duration from the first row of the file.
LoadDataInstanceFirstRow(f, i, rating, plays) ==
    LET row == f[i + 1]
    IN  [Song(row.title, ArtistOf(i), Some(rating * 100), plays,
              Some(row.danceability), Some(row.key.val),
              Some(f[1].duration_ms \div 1000))
            EXCEPT !.album = Some(AlbumOf(i))]

\* Song(...) as load_data builds it from row i (0-based) of the file.
LoadDataInstance(f, i, rating, plays) ==
    LET row == f[i + 1]
    IN  [Song(row.title, ArtistOf(i), Some(rating * 100), plays,
              Some(row.danceability), Some(row.key.val),
              Some(ParseDuration(row.duration_ms)))
            EXCEPT !.album = Some(AlbumOf(i))]

\* Model.save() raises on a value its column type cannot take.
Savable(f, i) == f[i + 1].key.isInt

\* normalize_data with _validate_song_data: the rows with a title whose
\* numeric fields are not negative, in file order.
RowNormal(row) ==
    row.title # <<>> /\ row.danceability >= 0 /\ row.duration_ms >= 0
Normalize(f) == SelectSeq(f, RowNormal)

\* Song(...) as load_to_database builds it for entry i (0-based) of the
\* normalized rows: the normalized entry gives title, danceability and
\* duration, and the file's row i gives the key.
LoaderInstance(f, i, rating, plays) ==
    LET entry == Normalize(f)[i + 1]
    IN  [Song(entry.title, ArtistOf(i), Some(rating * 100), plays,
              Some(entry.danceability), Some(f[i + 1].key.val),
              Some(ParseDuration(entry.duration_ms)))
            EXCEPT !.album = Some(AlbumOf(i))]
LoaderSavable(f, i) == f[i + 1].key.isInt

\* ----------------------------------------------------------- requests
NoBody == Body(<<>>, <<>>, <<>>, <<>>)
NoRating == [kind |-> "missing", num |-> 0, text |-> <<>>]
Request(op, id, query, body, rating) ==
    [op |-> op, id |-> id, query |-> query, body |-> body, rating |-> rating]
NoRequest == Request("none", 0, <<>>, NoBody, NoRating)

Queries == {<<>>, << <<"artist", <<"A">> >> >>}
SearchQueries == {<<>>, << <<"q", <<"t">> >> >>}
\* Query strings for the cache key: the same pairs in both orders, a name
\* given twice, a parameter no filter knows, a parameter named "action".
KeyQueries ==
    {<<>>,
     << <<"artist", <<"A">> >> >>,
     << <<"artist", <<"B">> >> >>,
     << <<"utm", <<"A">> >> >>,
     << <<"artist", <<"A">> >>, <<"utm", <<"A">> >> >>,
     << <<"utm", <<"A">> >>, <<"artist", <<"A">> >> >>,
     << <<"artist", <<"A">> >>, <<"artist", <<"B">> >> >>,
     << <<"artist", <<"B">> >>, <<"artist", <<"A">> >> >>,
     << <<"action", <<"x">> >> >>,
     << <<"action", <<"l", "i", "s", "t">> >> >>,
     << <<"artist", <<"A">> >>, <<"action", <<"x">> >> >>}
\* Search requests: no q, a blank q, q with blanks around it, and texts
\* found in a title, an artist, an album, lyrics, or nowhere.
SearchTexts ==
    {<<>>,
     << <<"q", <<" ">> >> >>,
     << <<"q", <<"t">> >> >>,
     << <<"q", <<" ", "t", " ">> >> >>,
     << <<"q", <<"a">> >> >>,
     << <<"q", <<"M", "1">> >> >>,
     << <<"q", <<"x", "y">> >> >>,
     << <<"q", <<"z">> >> >>}
\* The action names _get_cache_key is given and the patterns name.
KeyActions == {"list", "search", "stats"}
Bodies ==
    {Body(<< <<"T">> >>, << <<"A">> >>, <<4500>>, <<>>),
     Body(<< <<"S">> >>, << <<"B">> >>, <<>>, <<50>>),
     Body(<< <<"S">> >>, <<>>, <<>>, <<>>),
     Body(<<>>, <<>>, <<2000>>, <<>>),
     Body(<<>>, <<>>, <<6000>>, <<>>),
     Body(<<>>, <<>>, <<>>, <<150>>)}
RatingNum(v) == [kind |-> "num", num |-> v, text |-> <<>>]
RatingStr(t) == [kind |-> "str", num |-> 0, text |-> t]
Ratings ==
    {NoRating,
     RatingNum(-10), RatingNum(0), RatingNum(4999), RatingNum(5000),
     RatingNum(5010), RatingNum(6000),
     RatingStr(<<"4", ".", "5">>), RatingStr(<<"6">>), RatingStr(<<"a", "b">>),
     RatingStr(<<"n", "a", "n">>),
     [kind |-> "bool", num |-> 1, text |-> <<>>],
     [kind |-> "list", num |-> 0, text |-> <<>>]}

ReadOps == {"list", "search", "retrieve"}
WriteOps == {"create", "update", "destroy", "play", "rate", "load_data", "loader"}

\* The operations each specification lets the workers take.
ApiOps == {"list", "search", "retrieve",
           "create", "update", "destroy", "play", "rate", "load_data", "loader"}
PlayOps == {"play", "list", "retrieve"}
RateOps == {"rate", "play", "list"}
LoadOps == {"load_data", "loader", "list"}
TimeOps == {"list", "destroy"}
StatsOps == {"stats", "create", "destroy", "rate", "play"}
RankOps == {"top_rated", "most_played", "rate", "play", "create"}
FailOps == {"list", "search", "create", "update", "destroy", "play", "rate", "load_data"}

\* The requests of one operation, and of a set of operations.
RequestsFor(op) ==
    CASE op = "list" -> {Request(op, 0, q, NoBody, NoRating) : q \in Queries}
      [] op = "search" -> {Request(op, 0, q, NoBody, NoRating) : q \in SearchQueries}
      [] op = "create" -> {Request(op, 0, <<>>, b, NoRating) : b \in Bodies}
      [] op = "update" -> {Request(op, i, <<>>, b, NoRating) : i \in Ids, b \in Bodies}
      [] op = "rate" -> {Request(op, i, <<>>, NoBody, r) : i \in Ids, r \in Ratings}
      [] op = "retrieve" \/ op = "destroy" \/ op = "play" ->
            {Request(op, i, <<>>, NoBody, NoRating) : i \in Ids}
      [] OTHER -> {Request(op, 0, <<>>, NoBody, NoRating)}
RequestsOf(ops) == UNION {RequestsFor(op) : op \in ops}

Entry(op) == CASE op = "list" -> "list_get"
               [] op = "top_rated" -> "top_rated_query"
               [] op = "most_played" -> "most_played_query"
               [] op = "stats" -> "stats_total"
               [] op = "search" -> "search_query"
               [] op = "retrieve" -> "retrieve_get"
               [] op = "create" -> "create_save"
               [] op = "update" -> "update_get"
               [] op = "destroy" -> "destroy_get"
               [] op = "play" -> "play_get"
               [] op = "rate" -> "rate_get"
               [] op = "load_data" -> "load_check"
               [] OTHER -> "loader_clear"

\* A response: the operation answered, the status, whether the cache
\* answered, the list payload, and the numbers of the play and load responses.
Response(op, status, hit, payload, count, total) ==
    [op |-> op, status |-> status, hit |-> hit, payload |-> payload,
     count |-> count, total |-> total]
NoResponse == Response("none", 0, FALSE, NoPayload, 0, 0)
Plain(op, status) == Response(op, status, FALSE, NoPayload, 0, 0)

\* A worker's locals: the instance loaded or built, the payload computed,
\* the loop index and the songs_created counter of a bulk load.
NoSong == Song(<<>>, <<>>, None, 0, None, None, None)
Local(inst, pay, idx, created) ==
    [inst |-> inst, pay |-> pay, idx |-> idx, created |-> created]
NoLocal == Local(NoSong, NoPayload, 0, 0)

\* -------------------------------------------------------- cache facade
\* Python values given to and returned by RedisClient: text, an integer
\* (by its digits), a list, a dict (pairs of a text key and a value), None,
\* a bool, and an object json and redis cannot encode.
PyStr(t) == [kind |-> "str", text |-> t, items |-> <<>>]
PyInt(t) == [kind |-> "int", text |-> t, items |-> <<>>]
PyList(items) == [kind |-> "list", text |-> <<>>, items |-> items]
PyDict(items) == [kind |-> "dict", text |-> <<>>, items |-> items]
PyNone == [kind |-> "none", text |-> <<>>, items |-> <<>>]
PyTrue == [kind |-> "bool", text |-> <<"t", "r", "u", "e">>, items |-> <<>>]
PyFalse == [kind |-> "bool", text |-> <<"f", "a", "l", "s", "e">>, items |-> <<>>]
PyObject == [kind |-> "object", text |-> <<>>, items |-> <<>>]
PyBool(b) == IF b THEN PyTrue ELSE PyFalse

\* Whether json.dumps can encode v (it raises TypeError on an object).
RECURSIVE Serializable(_)
Serializable(v) ==
    CASE v.kind = "object" -> FALSE
      [] v.kind = "list" -> \A i \in DOMAIN v.items : Serializable(v.items[i])
      [] v.kind = "dict" -> \A i \in DOMAIN v.items : Serializable(v.items[i][2])
      [] OTHER -> TRUE

\* json.dumps(v) of a serializable v, with the default separators.
RECURSIVE JsonDumps(_)
RECURSIVE JsonItems(_, _)
JsonItems(items, isDict) ==
    IF items = <<>> THEN <<>>
    ELSE LET head == IF isDict
                     THEN <<"\"">> \o items[1][1] \o <<"\"", ":", " ">>
                          \o JsonDumps(items[1][2])
                     ELSE JsonDumps(items[1])
         IN  IF Len(items) = 1 THEN head
             ELSE head \o <<",", " ">> \o JsonItems(Tail(items), isDict)
JsonDumps(v) ==
    CASE v.kind = "str" -> <<"\"">> \o v.text \o <<"\"">>
      [] v.kind = "list" -> <<"[">> \o JsonItems(v.items, FALSE) \o <<"]">>
      [] v.kind = "dict" -> <<"{">> \o JsonItems(v.items, TRUE) \o <<"}">>
      [] v.kind = "none" -> <<"n", "u", "l", "l">>
      [] OTHER -> v.text

\* The documents json.loads recognises among the texts of the model: a text
\* is a JSON document when it is the dump of one of these values.
JsonDocs ==
    {PyInt(<<"7">>), PyInt(<<"1", "2">>), PyStr(<<"a">>), PyNone, PyTrue, PyFalse,
     PyList(<<>>), PyList(<<PyInt(<<"7">>)>>), PyList(<<PyStr(<<"a">>)>>),
     PyList(<<PyStr(<<"a">>), PyInt(<<"7">>)>>),
     PyDict(<<>>), PyDict(<< <<<<"k">>, PyInt(<<"7">>)>> >>),
     PyDict(<< <<<<"k">>, PyList(<<PyStr(<<"a">>)>>)>> >>)}

\* json.loads(text): the document, or JSONDecodeError.
JsonLoads(text) ==
    IF \E v \in JsonDocs : JsonDumps(v) = text
    THEN [ok |-> TRUE, value |-> CHOOSE v \in JsonDocs : JsonDumps(v) = text]
    ELSE [ok |-> FALSE, value |-> PyNone]

\* What redis-py sends for a value: text and numbers as their text; None, a
\* bool, a list, a dict or an object raise DataError.
RedisEncodable(v) == v.kind = "str" \/ v.kind = "int"

\* RedisClient.set up to setex: a dict or a list is dumped first.  The text
\* to store, or the failure of json.dumps or of the encoding.
SetText(value) ==
    IF value.kind = "dict" \/ value.kind = "list"
    THEN IF Serializable(value) THEN [ok |-> TRUE, text |-> JsonDumps(value)]
         ELSE [ok |-> FALSE, text |-> <<>>]
    ELSE IF RedisEncodable(value) THEN [ok |-> TRUE, text |-> value.text]
         ELSE [ok |-> FALSE, text |-> <<>>]

\* RedisClient.get after the read: the parsed document, else the text.
GetValue(text) ==
    IF JsonLoads(text).ok THEN JsonLoads(text).value ELSE PyStr(text)

\* ttl = ttl or self.default_ttl
DefaultTTL == 3600
TTLOf(ttl) == IF ttl = 0 THEN DefaultTTL ELSE ttl

\* A glob "<prefix>*" matches the keys that begin with the prefix.
KeyMatches(key, prefix) ==
    Len(prefix) <= Len(key) /\ SubSeq(key, 1, Len(prefix)) = prefix

\* The keys, patterns, values and timeouts of the facade calls checked.
FacadeKeys == {<<"a", "1">>, <<"b">>}
FacadePatterns == {<<>>, <<"a">>, <<"c">>}
FacadeValues ==
    {PyStr(<<"h", "i">>), PyStr(<<"1", "2">>), PyNone,
     PyList(<<PyStr(<<"a">>), PyInt(<<"7">>)>>), PyList(<<PyObject>>),
     PyDict(<< <<<<"k">>, PyList(<<PyStr(<<"a">>)>>)>> >>)}
FacadeTTLs == {0, 60}

\* get_cache_stats: the five counters picked from INFO.
StatsMapping ==
    PyDict(<< <<<<"connected_clients">>, PyInt(<<"1">>)>>,
              <<<<"used_memory_human">>, PyStr(<<"1", "M">>)>>,
              <<<<"total_commands_processed">>, PyInt(<<"7">>)>>,
              <<<<"keyspace_hits">>, PyInt(<<"7">>)>>,
              <<<<"keyspace_misses">>, PyInt(<<"1">>)>> >>)

\* A facade call of a worker: the method, its arguments, the keys
\* clear_cache enumerated, and on return the result or the exception.
Call(op, key, value, ttl, keys, result, raised) ==
    [op |-> op, key |-> key, value |-> value, ttl |-> ttl, keys |-> keys,
     result |-> result, raised |-> raised]
NoCall == Call("none", <<>>, PyNone, 0, {}, PyNone, FALSE)
\* A Redis entry: the text stored and its timeout.
RedisEntry(text, ttl) == [text |-> text, ttl |-> ttl]

\* -------------------------------------------------------------- state
VARIABLES
    store,      \* the Song table: id -> Song
    nextId,     \* the table's auto-increment
    cache,      \* the cache: key -> payload
    paginate,   \* whether the deployment configures a pagination class
    file,       \* the playlist file on disk
    pc,         \* where each worker is in its handler
    req,        \* the request each worker handles
    loc,        \* each worker's locals
    resp,       \* the last response of each worker
    budget,     \* requests started so far
    hist,       \* history, read by the properties only
    redis,      \* the Redis server behind RedisClient: key -> entry
    call        \* the RedisClient call of each worker

vars == <<store, nextId, cache, paginate, file, pc, req, loc, resp, budget, hist,
         redis, call>>

\* A catalog the service may hold when the run begins: none, or one song
\* as a create request leaves it.
FirstSong == Song(<<"T">>, <<"A">>, Some(450), 0, None, None, None)
Catalogs == {<<>>, <<FirstSong>>}

\* ------------------------------------------------------------- history
\* dirty[w]:     the keys cached when w's request committed a store mutation
\*               and neither removed nor written anew since
\* seen:         the cached-read requests answered since the last write step
\*               or expiry, each with its payload
\* prior[w]:     the payload an identical read got before w's read began, no
\*               write step or expiry having come in between
\* first[i]:     the play_count of song i when the first play request on it
\*               began
\* played[i]:    the play requests on song i answered 200
\* attempted[w]: the records w's bulk load went through
\* stored[w]:    the songs w's bulk load saved
\* fault[w]:     the layer whose call failed in w's request: "cache", "store"
\*               or "none"
\* now:          the time, in seconds
\* made[w]:      when the payload w holds was computed from the store
\* times[key]:   when the entry under key was stored, and when its payload
\*               was computed
\* age[w]:       for a payload w returned from the cache, the seconds since
\*               it was stored and since it was computed
\* put[key]:     the value the last successful RedisClient.set stored under
\*               key, while that entry is there
NoHistory ==
    [dirty |-> [w \in Workers |-> {}],
     seen |-> <<>>,
     prior |-> [w \in Workers |-> <<>>],
     first |-> [i \in Ids |-> <<>>],
     played |-> [i \in Ids |-> 0],
     attempted |-> [w \in Workers |-> 0],
     stored |-> [w \in Workers |-> 0],
     fault |-> [w \in Workers |-> "none"],
     now |-> 0, made |-> [w \in Workers |-> 0], times |-> <<>>,
     age |-> [w \in Workers |-> <<>>], put |-> <<>>]

CachedReadOps == {"list", "search"}
Sig(r) == [op |-> r.op, query |-> r.query]

HStart(h, w, r) ==
    [h EXCEPT !.dirty[w] = {},
              !.prior[w] = IF r.op \in CachedReadOps /\ Sig(r) \in DOMAIN h.seen
                           THEN <<h.seen[Sig(r)]>> ELSE <<>>,
              !.first = IF r.op = "play" /\ r.id \in DOMAIN store /\ @[r.id] = <<>>
                        THEN [@ EXCEPT ![r.id] = <<store[r.id].play_count>>] ELSE @,
              !.attempted[w] = 0,
              !.stored[w] = 0,
              !.fault[w] = "none",
              !.made[w] = 0,
              !.age[w] = <<>>]
HWrite(h) == [h EXCEPT !.seen = <<>>, !.prior = [w \in Workers |-> <<>>]]
HCommit(h, w) == HWrite([h EXCEPT !.dirty[w] = @ \cup DOMAIN cache])
HInvalidate(h, c) ==
    HWrite([h EXCEPT !.dirty = [v \in Workers |-> @[v] \cap DOMAIN c],
                     !.times = [k \in (DOMAIN @) \cap (DOMAIN c) |-> @[k]]])
HFill(h, key) == [h EXCEPT !.dirty = [v \in Workers |-> @[v] \ {key}]]
HRead(h, r, payload) ==
    [h EXCEPT !.seen = [s \in (DOMAIN @) \cup {Sig(r)} |->
                           IF s = Sig(r) THEN payload ELSE @[s]]]
HPlayed(h, i) == IF i \in Ids THEN [h EXCEPT !.played[i] = @ + 1] ELSE h
HAttempted(h, w) == [h EXCEPT !.attempted[w] = @ + 1]
HStored(h, w) == [h EXCEPT !.stored[w] = @ + 1]
HFault(h, w, layer) == [h EXCEPT !.fault[w] = layer]
HComputed(h, w) == [h EXCEPT !.made[w] = h.now]
HPut(h, key, value) ==
    [h EXCEPT !.put = [k \in (DOMAIN @) \cup {key} |->
                          IF k = key THEN value ELSE @[k]]]
HDrop(h, keys) == [h EXCEPT !.put = [k \in (DOMAIN @) \ keys |-> @[k]]]
HTimed(h, w, key) ==
    [h EXCEPT !.times = [k \in (DOMAIN @) \cup {key} |->
                            IF k = key THEN [set |-> h.now, made |-> h.made[w]]
                            ELSE @[k]],
              !.made[w] = 0]
HHit(h, w, key) ==
    [h EXCEPT !.age[w] = IF key \in DOMAIN h.times
                         THEN <<[stored |-> h.now - h.times[key].set,
                                 computed |-> h.now - h.times[key].made]>>
                         ELSE <<>>]

InitWith(catalogs, files, paging) ==
    /\ store \in catalogs
    /\ nextId = Len(store) + 1
    /\ cache = <<>>
    /\ paginate \in paging
    /\ file \in files
    /\ pc = [w \in Workers |-> "idle"]
    /\ req = [w \in Workers |-> NoRequest]
    /\ loc = [w \in Workers |-> NoLocal]
    /\ resp = [w \in Workers |-> NoResponse]
    /\ budget = 0
    /\ hist = NoHistory
    /\ redis = <<>>
    /\ call = [w \in Workers |-> NoCall]

\* ------------------------------------------------------------ helpers
\* The worker moves to another step of its handler.
Goto(w, label) == pc' = [pc EXCEPT ![w] = label] /\ UNCHANGED req

\* The handler returns r: the worker is idle again, its locals are gone.
Respond(w, r) ==
    /\ resp' = [resp EXCEPT ![w] = r]
    /\ pc' = [pc EXCEPT ![w] = "idle"]
    /\ loc' = [loc EXCEPT ![w] = NoLocal]
    /\ req' = [req EXCEPT ![w] = NoRequest]

\* Model.save() of an instance with primary key id: the row is updated, and
\* inserted when no row has the key.
SaveRow(st, id, inst) ==
    [i \in (DOMAIN st) \cup {id} |-> IF i = id THEN inst ELSE st[i]]

\* Model.save() of a new instance: the row takes the next id.
InsertRow(st, id, inst) ==
    [i \in (DOMAIN st) \cup {id} |-> IF i = id THEN inst ELSE st[i]]

\* song.delete()
DeleteRow(st, id) == [i \in (DOMAIN st) \ {id} |-> st[i]]

\* cache.set(key, value, ttl)
CacheSet(c, key, value) ==
    [k \in (DOMAIN c) \cup {key} |-> IF k = key THEN value ELSE c[k]]

\* ------------------------------------------------------------ dispatch
\* A worker takes a request.
Start(w, ops) ==
    /\ pc[w] = "idle"
    /\ budget < MaxRequests
    /\ \E r \in RequestsOf(ops) :
         /\ req' = [req EXCEPT ![w] = r]
         /\ pc' = [pc EXCEPT ![w] = Entry(r.op)]
         /\ hist' = HStart(hist, w, r)
    /\ resp' = [resp EXCEPT ![w] = NoResponse]
    /\ budget' = budget + 1
    /\ UNCHANGED <<store, nextId, cache, paginate, file, loc>>
    /\ UNCHANGED <<redis, call>>

\* A worker takes a search request with one of the query strings
\* SearchTexts.
SearchStart(w) ==
    /\ pc[w] = "idle"
    /\ budget < MaxRequests
    /\ \E q \in SearchTexts :
         LET r == Request("search", 0, q, NoBody, NoRating)
         IN  /\ req' = [req EXCEPT ![w] = r]
             /\ pc' = [pc EXCEPT ![w] = Entry("search")]
             /\ hist' = HStart(hist, w, r)
    /\ resp' = [resp EXCEPT ![w] = NoResponse]
    /\ budget' = budget + 1
    /\ UNCHANGED <<store, nextId, cache, paginate, file, loc>>
    /\ UNCHANGED <<redis, call>>

\* A worker takes a list request with one of the query strings KeyQueries.
KeyStart(w) ==
    /\ pc[w] = "idle"
    /\ budget < MaxRequests
    /\ \E q \in KeyQueries :
         LET r == Request("list", 0, q, NoBody, NoRating)
         IN  /\ req' = [req EXCEPT ![w] = r]
             /\ pc' = [pc EXCEPT ![w] = Entry("list")]
             /\ hist' = HStart(hist, w, r)
    /\ resp' = [resp EXCEPT ![w] = NoResponse]
    /\ budget' = budget + 1
    /\ UNCHANGED <<store, nextId, cache, paginate, file, loc>>
    /\ UNCHANGED <<redis, call>>

\* ---------------------------------------------------------------- list
\* cache.get(cache_key); a true value is returned as it is.
ListGet(w) ==
    /\ pc[w] = "list_get"
    /\ LET key == GetCacheKey(req[w].query, "list")
       IN  IF key \in DOMAIN cache /\ Truthy(cache[key])
           THEN /\ Respond(w, Response("list", 200, TRUE, cache[key], 0, 0))
                /\ hist' = HHit(HRead(hist, req[w], cache[key]), w, key)
           ELSE /\ Goto(w, "list_query")
                /\ UNCHANGED <<resp, loc, hist>>
    /\ UNCHANGED <<store, nextId, cache, paginate, file, budget>>
    /\ UNCHANGED <<redis, call>>

\* The miss: the store is queried.
ListQuery(w) ==
    /\ pc[w] = "list_query"
    /\ loc' = [loc EXCEPT ![w].pay = ListPayload(store, req[w].query, paginate)]
    /\ Goto(w, "list_set")
    /\ hist' = HComputed(hist, w)
    /\ UNCHANGED <<store, nextId, cache, paginate, file, resp, budget>>
    /\ UNCHANGED <<redis, call>>

\* ListSet storing the envelope of the payload without its results.
ListSetDropsResults(w) ==
    /\ pc[w] = "list_set"
    /\ LET key == GetCacheKey(req[w].query, "list")
       IN  /\ cache' = CacheSet(cache, key, Payload(loc[w].pay.paginated, <<>>))
           /\ hist' = HRead(HTimed(HFill(hist, key), w, key), req[w], loc[w].pay)
    /\ Respond(w, Response("list", 200, FALSE, loc[w].pay, 0, 0))
    /\ UNCHANGED <<store, nextId, paginate, file, budget>>
    /\ UNCHANGED <<redis, call>>

\* cache.set(cache_key, response_data, 300), and the response.
ListSet(w) ==
    /\ pc[w] = "list_set"
    /\ LET key == GetCacheKey(req[w].query, "list")
       IN  /\ cache' = CacheSet(cache, key, loc[w].pay)
           /\ hist' = HRead(HTimed(HFill(hist, key), w, key), req[w], loc[w].pay)
    /\ Respond(w, Response("list", 200, FALSE, loc[w].pay, 0, 0))
    /\ UNCHANGED <<store, nextId, paginate, file, budget>>
    /\ UNCHANGED <<redis, call>>

\* -------------------------------------------------------------- search
\* The store is queried on every request.
Search(w) ==
    /\ pc[w] = "search_query"
    /\ LET payload == SearchPayload(store, req[w].query, paginate)
       IN  /\ Respond(w, Response("search", 200, FALSE, payload, 0, 0))
           /\ hist' = HRead(hist, req[w], payload)
    /\ UNCHANGED <<store, nextId, cache, paginate, file, budget>>
    /\ UNCHANGED <<redis, call>>

\* ------------------------------------------- top_rated and most_played
\* top_rated that leaves out the rating__isnull=False filter.
TopRatedUnfiltered(w) ==
    /\ pc[w] = "top_rated_query"
    /\ \E payload \in {Payload(paginate, [n \in DOMAIN ids |-> FullItem(store, ids[n])]) :
                          ids \in Descending(DOMAIN store,
                                             [i \in DOMAIN store |-> RatingRank(store[i].rating)])} :
         Respond(w, Response("top_rated", 200, FALSE, payload, 0, 0))
    /\ UNCHANGED <<store, nextId, cache, paginate, file, budget, hist>>
    /\ UNCHANGED <<redis, call>>

TopRated(w) ==
    /\ pc[w] = "top_rated_query"
    /\ \E payload \in TopRatedPayloads(store, paginate) :
         Respond(w, Response("top_rated", 200, FALSE, payload, 0, 0))
    /\ UNCHANGED <<store, nextId, cache, paginate, file, budget, hist>>
    /\ UNCHANGED <<redis, call>>

MostPlayed(w) ==
    /\ pc[w] = "most_played_query"
    /\ \E payload \in MostPlayedPayloads(store, paginate) :
         Respond(w, Response("most_played", 200, FALSE, payload, 0, 0))
    /\ UNCHANGED <<store, nextId, cache, paginate, file, budget, hist>>
    /\ UNCHANGED <<redis, call>>

\* --------------------------------------------------------------- stats
\* The statistics a stats request has gathered so far.
StatsSoFar(total, plays, average, rated, unrated) ==
    [total_songs |-> total, total_plays |-> plays, average_rating |-> average,
     songs_with_ratings |-> rated, songs_without_ratings |-> unrated]

\* Sum('play_count') and Sum of the ratings over a set of rows.
RECURSIVE SumOver(_, _)
SumOver(S, f) ==
    IF S = {} THEN 0
    ELSE LET x == CHOOSE y \in S : TRUE IN f[x] + SumOver(S \ {x}, f)
Rated(st) == {i \in DOMAIN st : st[i].rating # None}

\* round(float(Avg('rating')), 2), 0 without a rated song; hundredths, the
\* half rounded up.
AverageRating(st) ==
    IF Rated(st) = {} THEN 0
    ELSE LET sum == SumOver(Rated(st), [i \in Rated(st) |-> Val(st[i].rating)])
             n == Cardinality(Rated(st))
         IN  (2 * sum + n) \div (2 * n)

\* total_songs = self.get_queryset().count()
StatsTotal(w) ==
    /\ pc[w] = "stats_total"
    /\ loc' = [loc EXCEPT ![w].pay = StatsSoFar(Cardinality(DOMAIN store), 0, 0, 0, 0)]
    /\ Goto(w, "stats_plays")
    /\ UNCHANGED <<store, nextId, cache, paginate, file, resp, budget, hist>>
    /\ UNCHANGED <<redis, call>>

\* total_plays = aggregate(Sum('play_count')) or 0
StatsPlays(w) ==
    /\ pc[w] = "stats_plays"
    /\ loc' = [loc EXCEPT ![w].pay.total_plays =
                   SumOver(DOMAIN store, [i \in DOMAIN store |-> store[i].play_count])]
    /\ Goto(w, "stats_average")
    /\ UNCHANGED <<store, nextId, cache, paginate, file, resp, budget, hist>>
    /\ UNCHANGED <<redis, call>>

\* avg_rating = rated_songs.aggregate(Avg('rating')) or 0
StatsAverage(w) ==
    /\ pc[w] = "stats_average"
    /\ loc' = [loc EXCEPT ![w].pay.average_rating = AverageRating(store)]
    /\ Goto(w, "stats_genres")
    /\ UNCHANGED <<store, nextId, cache, paginate, file, resp, budget, hist>>
    /\ UNCHANGED <<redis, call>>

\* list(top_genres): the fourth query; genre is not a column of the model,
\* its rows are left out of the payload.
StatsGenres(w) ==
    /\ pc[w] = "stats_genres"
    /\ Goto(w, "stats_rated")
    /\ UNCHANGED <<store, nextId, cache, paginate, file, loc, resp, budget, hist>>
    /\ UNCHANGED <<redis, call>>

\* 'songs_with_ratings': rated_songs.count()
StatsRated(w) ==
    /\ pc[w] = "stats_rated"
    /\ loc' = [loc EXCEPT ![w].pay.songs_with_ratings = Cardinality(Rated(store))]
    /\ Goto(w, "stats_unrated")
    /\ UNCHANGED <<store, nextId, cache, paginate, file, resp, budget, hist>>
    /\ UNCHANGED <<redis, call>>

\* 'songs_without_ratings': total_songs - rated_songs.count(), a count
\* query of its own, and the response.
StatsUnrated(w) ==
    /\ pc[w] = "stats_unrated"
    /\ Respond(w, Response("stats", 200, FALSE,
                           [loc[w].pay EXCEPT !.songs_without_ratings =
                               loc[w].pay.total_songs - Cardinality(Rated(store))],
                           0, 0))
    /\ UNCHANGED <<store, nextId, cache, paginate, file, budget, hist>>
    /\ UNCHANGED <<redis, call>>

\* ------------------------------------------------------------ retrieve
\* get_object() raises Http404 for an unknown id; the handler's
\* "except Exception" turns it into a 500.
Retrieve(w) ==
    /\ pc[w] = "retrieve_get"
    /\ IF req[w].id \in DOMAIN store
       THEN Respond(w, Response("retrieve", 200, FALSE,
                                Payload(FALSE, <<FullItem(store, req[w].id)>>), 0, 0))
       ELSE Respond(w, Plain("retrieve", 500))
    /\ UNCHANGED <<store, nextId, cache, paginate, file, budget, hist>>
    /\ UNCHANGED <<redis, call>>

\* -------------------------------------------------------------- create
\* is_valid(raise_exception=True) and serializer.save(); the ValidationError
\* is caught by "except Exception" and answered 500.
CreateSave(w) ==
    /\ pc[w] = "create_save"
    /\ IF IsValid(req[w].body, FALSE)
       THEN /\ store' = InsertRow(store, nextId, CreateInstance(req[w].body))
            /\ nextId' = nextId + 1
            /\ hist' = HCommit(hist, w)
            /\ Goto(w, "create_clear")
            /\ UNCHANGED <<resp, loc>>
       ELSE /\ Respond(w, Plain("create", 500))
            /\ UNCHANGED <<store, nextId, hist>>
    /\ UNCHANGED <<cache, paginate, file, budget>>
    /\ UNCHANGED <<redis, call>>

\* _clear_related_caches() and the response, shared by the write handlers;
\* h is the history before the caches go.
ClearAndRespond(w, r, h) ==
    /\ cache' = ClearRelatedCaches(cache)
    /\ hist' = HInvalidate(h, cache')
    /\ Respond(w, r)
    /\ UNCHANGED <<store, nextId, paginate, file, budget>>
    /\ UNCHANGED <<redis, call>>

CreateClear(w) ==
    /\ pc[w] = "create_clear"
    /\ ClearAndRespond(w, Plain("create", 201), hist)

\* -------------------------------------------------------------- update
\* get_object(), then is_valid() of the partial body.
UpdateGet(w) ==
    /\ pc[w] = "update_get"
    /\ IF req[w].id \in DOMAIN store /\ IsValid(req[w].body, TRUE)
       THEN /\ loc' = [loc EXCEPT ![w].inst = UpdateInstance(store[req[w].id], req[w].body)]
            /\ Goto(w, "update_save")
            /\ UNCHANGED resp
       ELSE Respond(w, Plain("update", 500))
    /\ UNCHANGED <<store, nextId, cache, paginate, file, budget, hist>>
    /\ UNCHANGED <<redis, call>>

\* serializer.save(): instance.save() writes every field of the instance.
UpdateSave(w) ==
    /\ pc[w] = "update_save"
    /\ store' = SaveRow(store, req[w].id, loc[w].inst)
    /\ hist' = HCommit(hist, w)
    /\ Goto(w, "update_clear")
    /\ UNCHANGED <<nextId, cache, paginate, file, loc, resp, budget>>
    /\ UNCHANGED <<redis, call>>

UpdateClear(w) ==
    /\ pc[w] = "update_clear"
    /\ ClearAndRespond(w, Plain("update", 200), hist)

\* ------------------------------------------------------------- destroy
DestroyGet(w) ==
    /\ pc[w] = "destroy_get"
    /\ IF req[w].id \in DOMAIN store
       THEN Goto(w, "destroy_delete") /\ UNCHANGED <<resp, loc>>
       ELSE Respond(w, Plain("destroy", 500))
    /\ UNCHANGED <<store, nextId, cache, paginate, file, budget, hist>>
    /\ UNCHANGED <<redis, call>>

DestroyDelete(w) ==
    /\ pc[w] = "destroy_delete"
    /\ store' = DeleteRow(store, req[w].id)
    /\ hist' = HCommit(hist, w)
    /\ Goto(w, "destroy_clear")
    /\ UNCHANGED <<nextId, cache, paginate, file, loc, resp, budget>>
    /\ UNCHANGED <<redis, call>>

DestroyClear(w) ==
    /\ pc[w] = "destroy_clear"
    /\ ClearAndRespond(w, Plain("destroy", 204), hist)

\* ---------------------------------------------------------------- play
PlayGet(w) ==
    /\ pc[w] = "play_get"
    /\ IF req[w].id \in DOMAIN store
       THEN /\ loc' = [loc EXCEPT ![w].inst = store[req[w].id]]
            /\ Goto(w, "play_save")
            /\ UNCHANGED resp
       ELSE Respond(w, Plain("play", 500))
    /\ UNCHANGED <<store, nextId, cache, paginate, file, budget, hist>>
    /\ UNCHANGED <<redis, call>>

\* Song.increment_play_count on the loaded instance: self.play_count += 1.
IncrementPlayCount(inst) == [inst EXCEPT !.play_count = @ + 1]

\* save(update_fields=['play_count']): only that column is written, and a
\* row that is gone makes save raise (answered 500).
PlaySave(w) ==
    /\ pc[w] = "play_save"
    /\ LET played == IncrementPlayCount(loc[w].inst)
       IN  IF req[w].id \in DOMAIN store
           THEN /\ store' = [store EXCEPT ![req[w].id].play_count = played.play_count]
                /\ loc' = [loc EXCEPT ![w].inst = played]
                /\ hist' = HCommit(hist, w)
                /\ Goto(w, "play_clear")
                /\ UNCHANGED resp
           ELSE /\ Respond(w, Plain("play", 500))
                /\ UNCHANGED <<store, hist>>
    /\ UNCHANGED <<nextId, cache, paginate, file, budget>>
    /\ UNCHANGED <<redis, call>>

PlayClear(w) ==
    /\ pc[w] = "play_clear"
    /\ ClearAndRespond(w, Response("play", 200, FALSE, NoPayload,
                                   loc[w].inst.play_count, 0),
                       HPlayed(hist, req[w].id))

\* ---------------------------------------------------------------- rate
\* Checks that keep the upper bound itself out: 0.0 <= rating < 5.0.
RateStatusBelowMax(rating) ==
    IF rating.kind = "missing" THEN 400
    ELSE IF ~ToFloat(rating).ok THEN 400
    ELSE IF ~(InRatingRange(ToFloat(rating)) /\ ToFloat(rating).val < RatingMax) THEN 400
    ELSE 200

\* The checks of rate on request.data.get('rating'): the status it answers
\* without saving, or 200 when the rating is to be saved.
RateStatus(rating) ==
    IF rating.kind = "missing" THEN 400
    ELSE IF ~ToFloat(rating).ok THEN 400
    ELSE IF ~InRatingRange(ToFloat(rating)) THEN 400
    ELSE 200

\* A rate that clears the related caches before it looks at the rating.
RateGetClearsFirst(w) ==
    /\ pc[w] = "rate_get"
    /\ cache' = ClearRelatedCaches(cache)
    /\ hist' = HInvalidate(hist, cache')
    /\ IF req[w].id \notin DOMAIN store
       THEN Respond(w, Plain("rate", 500))
       ELSE IF RateStatus(req[w].rating) # 200
       THEN Respond(w, Plain("rate", RateStatus(req[w].rating)))
       ELSE /\ loc' = [loc EXCEPT ![w].inst =
                         [store[req[w].id] EXCEPT
                            !.rating = Some(ToStoredRating(ToFloat(req[w].rating).val))]]
            /\ Goto(w, "rate_save")
            /\ UNCHANGED resp
    /\ UNCHANGED <<store, nextId, paginate, file, budget>>
    /\ UNCHANGED <<redis, call>>

\* get_object(), the checks, and song.rating = rating.
RateGet(w) ==
    /\ pc[w] = "rate_get"
    /\ IF req[w].id \notin DOMAIN store
       THEN Respond(w, Plain("rate", 500))
       ELSE IF RateStatus(req[w].rating) # 200
       THEN Respond(w, Plain("rate", RateStatus(req[w].rating)))
       ELSE /\ loc' = [loc EXCEPT ![w].inst =
                         [store[req[w].id] EXCEPT
                            !.rating = Some(ToStoredRating(ToFloat(req[w].rating).val))]]
            /\ Goto(w, "rate_save")
            /\ UNCHANGED resp
    /\ UNCHANGED <<store, nextId, cache, paginate, file, budget, hist>>
    /\ UNCHANGED <<redis, call>>

\* song.save() writes every field of the instance.
RateSave(w) ==
    /\ pc[w] = "rate_save"
    /\ store' = SaveRow(store, req[w].id, loc[w].inst)
    /\ hist' = HCommit(hist, w)
    /\ Goto(w, "rate_clear")
    /\ UNCHANGED <<nextId, cache, paginate, file, loc, resp, budget>>
    /\ UNCHANGED <<redis, call>>

RateClear(w) ==
    /\ pc[w] = "rate_clear"
    /\ ClearAndRespond(w, Plain("rate", 200), hist)

\* ----------------------------------------------------------- load_data
\* Song.objects.exists(), then the file is read.
LoadCheck(w) ==
    /\ pc[w] = "load_check"
    /\ IF DOMAIN store # {}
       THEN Goto(w, "load_count")
       ELSE Goto(w, IF Len(file) = 0 THEN "load_clear" ELSE "load_row")
    /\ UNCHANGED <<store, nextId, cache, paginate, file, loc, resp, budget, hist>>
    /\ UNCHANGED <<redis, call>>

\* The refusal, with Song.objects.count() as existing_count.
LoadCount(w) ==
    /\ pc[w] = "load_count"
    /\ Respond(w, Response("load_data", 400, FALSE, NoPayload,
                           Cardinality(DOMAIN store), 0))
    /\ UNCHANGED <<store, nextId, cache, paginate, file, budget, hist>>
    /\ UNCHANGED <<redis, call>>

\* A loop that counts the record before it saves it.
LoadRowCountsFirst(w) ==
    /\ pc[w] = "load_row"
    /\ LET i == loc[w].idx
           after == IF i + 1 = Len(file) THEN "load_clear" ELSE "load_row"
       IN  /\ loc' = [loc EXCEPT ![w].idx = i + 1, ![w].created = @ + 1]
           /\ IF Savable(file, i)
              THEN \E rating \in RandInt(RandRatingLo, RandRatingHi),
                      plays \in RandInt(RandPlayLo, RandPlayHi) :
                     /\ store' = InsertRow(store, nextId,
                                           LoadDataInstance(file, i, rating, plays))
                     /\ nextId' = nextId + 1
                     /\ hist' = HStored(HAttempted(HCommit(hist, w), w), w)
              ELSE /\ hist' = HAttempted(hist, w)
                   /\ UNCHANGED <<store, nextId>>
           /\ Goto(w, after)
    /\ UNCHANGED <<cache, paginate, file, resp, budget>>
    /\ UNCHANGED <<redis, call>>

\* One pass of the loop: the song of row idx is built and saved, and
\* songs_created counts it; an exception is logged and the loop goes on.
LoadRow(w) ==
    /\ pc[w] = "load_row"
    /\ LET i == loc[w].idx
           after == IF i + 1 = Len(file) THEN "load_clear" ELSE "load_row"
       IN  /\ IF Savable(file, i)
              THEN \E rating \in RandInt(RandRatingLo, RandRatingHi),
                      plays \in RandInt(RandPlayLo, RandPlayHi) :
                     /\ store' = InsertRow(store, nextId,
                                           LoadDataInstance(file, i, rating, plays))
                     /\ nextId' = nextId + 1
                     /\ loc' = [loc EXCEPT ![w].idx = i + 1, ![w].created = @ + 1]
                     /\ hist' = HStored(HAttempted(HCommit(hist, w), w), w)
              ELSE /\ loc' = [loc EXCEPT ![w].idx = i + 1]
                   /\ hist' = HAttempted(hist, w)
                   /\ UNCHANGED <<store, nextId>>
           /\ Goto(w, after)
    /\ UNCHANGED <<cache, paginate, file, resp, budget>>
    /\ UNCHANGED <<redis, call>>

\* cache.clear() and the 201 with songs_created and total_songs.
LoadClear(w) ==
    /\ pc[w] = "load_clear"
    /\ cache' = ClearAll(cache)
    /\ hist' = HInvalidate(hist, cache')
    /\ Respond(w, Response("load_data", 201, FALSE, NoPayload,
                           loc[w].created, Len(file)))
    /\ UNCHANGED <<store, nextId, paginate, file, budget>>
    /\ UNCHANGED <<redis, call>>

\* ------------------------------------------------- the standalone loader
\* main(): the file is normalized (exit 1 when no row is left), then
\* load_to_database(clear_existing=True) deletes every song.
LoaderClear(w) ==
    /\ pc[w] = "loader_clear"
    /\ IF Normalize(file) = <<>>
       THEN /\ Respond(w, Plain("loader", 1))
            /\ UNCHANGED <<store, hist>>
       ELSE /\ store' = <<>>
            /\ hist' = HCommit(hist, w)
            /\ Goto(w, "loader_row")
            /\ UNCHANGED <<resp, loc>>
    /\ UNCHANGED <<nextId, cache, paginate, file, budget>>
    /\ UNCHANGED <<redis, call>>

\* One pass of the loop over the normalized rows.
LoaderRow(w) ==
    /\ pc[w] = "loader_row"
    /\ LET i == loc[w].idx
           after == IF i + 1 = Len(Normalize(file)) THEN "loader_end" ELSE "loader_row"
       IN  /\ IF LoaderSavable(file, i)
              THEN \E rating \in RandInt(RandRatingLo, RandRatingHi),
                      plays \in RandInt(RandPlayLo, RandPlayHi) :
                     /\ store' = InsertRow(store, nextId,
                                           LoaderInstance(file, i, rating, plays))
                     /\ nextId' = nextId + 1
                     /\ loc' = [loc EXCEPT ![w].idx = i + 1, ![w].created = @ + 1]
                     /\ hist' = HStored(HAttempted(HCommit(hist, w), w), w)
              ELSE /\ loc' = [loc EXCEPT ![w].idx = i + 1]
                   /\ hist' = HAttempted(hist, w)
                   /\ UNCHANGED <<store, nextId>>
           /\ Goto(w, after)
    /\ UNCHANGED <<cache, paginate, file, resp, budget>>
    /\ UNCHANGED <<redis, call>>

\* The summary divides by songs_created: with none created the script dies
\* of ZeroDivisionError (exit status 1); else it ends with status 0.  The
\* cache is not touched.
LoaderEnd(w) ==
    /\ pc[w] = "loader_end"
    /\ Respond(w, Response("loader", IF loc[w].created = 0 THEN 1 ELSE 0, FALSE,
                           NoPayload, loc[w].created, Len(Normalize(file))))
    /\ UNCHANGED <<store, nextId, cache, paginate, file, budget, hist>>
    /\ UNCHANGED <<redis, call>>

\* --------------------------------------------------------- RedisClient
\* The frame of a facade call: it counts as a request and touches neither
\* the catalog nor the views' cache.
FacadeCall(w) ==
    /\ pc[w] = "idle"
    /\ budget < MaxRequests
    /\ budget' = budget + 1
    /\ UNCHANGED <<store, nextId, cache, paginate, file, req, loc, resp>>
Returns(w, c, result) == call' = [call EXCEPT ![w] = [c EXCEPT !.result = result]]
RemoveKeys(r, keys) == [k \in (DOMAIN r) \ keys |-> r[k]]

\* set(key, value, ttl): json.dumps of a dict or list, setex; any exception
\* is logged and False returned.
FacadeSet(w) ==
    /\ FacadeCall(w)
    /\ \E key \in FacadeKeys, value \in FacadeValues, ttl \in FacadeTTLs :
         LET c == Call("set", key, value, ttl, {}, PyNone, FALSE)
             enc == SetText(value)
         IN  \/ /\ enc.ok
                /\ redis' = [k \in (DOMAIN redis) \cup {key} |->
                                IF k = key THEN RedisEntry(enc.text, TTLOf(ttl))
                                ELSE redis[k]]
                /\ Returns(w, c, PyTrue)
                /\ hist' = HPut(HFault(hist, w, "none"), key, value)
             \/ /\ ~enc.ok
                /\ Returns(w, c, PyFalse)
                /\ hist' = HFault(hist, w, "value")
                /\ UNCHANGED redis
             \/ /\ Returns(w, c, PyFalse)
                /\ hist' = HFault(hist, w, "cache")
                /\ UNCHANGED redis
    /\ UNCHANGED pc

\* get with an except clause that lets the errors of the service through.
FacadeGetRaises(w) ==
    /\ FacadeCall(w)
    /\ \E key \in FacadeKeys :
         LET c == Call("get", key, PyNone, 0, {}, PyNone, FALSE)
         IN  \/ /\ Returns(w, c, IF key \in DOMAIN redis
                                 THEN GetValue(redis[key].text) ELSE PyNone)
                /\ hist' = HFault(hist, w, "none")
             \/ /\ call' = [call EXCEPT ![w] = [c EXCEPT !.raised = TRUE]]
                /\ hist' = HFault(hist, w, "cache")
    /\ UNCHANGED <<pc, redis>>

\* get(key): None for a missing key; json.loads of the value, its text when
\* that fails; any other exception is logged and None returned.
FacadeGet(w) ==
    /\ FacadeCall(w)
    /\ \E key \in FacadeKeys :
         LET c == Call("get", key, PyNone, 0, {}, PyNone, FALSE)
         IN  \/ /\ Returns(w, c, IF key \in DOMAIN redis
                                 THEN GetValue(redis[key].text) ELSE PyNone)
                /\ hist' = HFault(hist, w, "none")
             \/ /\ Returns(w, c, PyNone)
                /\ hist' = HFault(hist, w, "cache")
    /\ UNCHANGED <<pc, redis>>

\* delete(key): bool of the number of keys removed.
FacadeDelete(w) ==
    /\ FacadeCall(w)
    /\ \E key \in FacadeKeys :
         LET c == Call("delete", key, PyNone, 0, {}, PyNone, FALSE)
         IN  \/ /\ redis' = RemoveKeys(redis, {key})
                /\ Returns(w, c, PyBool(key \in DOMAIN redis))
                /\ hist' = HDrop(HFault(hist, w, "none"), {key})
             \/ /\ Returns(w, c, PyFalse)
                /\ hist' = HFault(hist, w, "cache")
                /\ UNCHANGED redis
    /\ UNCHANGED pc

\* exists(key)
FacadeExists(w) ==
    /\ FacadeCall(w)
    /\ \E key \in FacadeKeys :
         LET c == Call("exists", key, PyNone, 0, {}, PyNone, FALSE)
         IN  \/ /\ Returns(w, c, PyBool(key \in DOMAIN redis))
                /\ hist' = HFault(hist, w, "none")
             \/ /\ Returns(w, c, PyFalse)
                /\ hist' = HFault(hist, w, "cache")
    /\ UNCHANGED <<pc, redis>>

\* expire(key, ttl): the timeout of a key that is there is replaced; a
\* timeout of 0 removes the key.
FacadeExpire(w) ==
    /\ FacadeCall(w)
    /\ \E key \in FacadeKeys, ttl \in FacadeTTLs :
         LET c == Call("expire", key, PyNone, ttl, {}, PyNone, FALSE)
         IN  \/ /\ redis' = IF key \notin DOMAIN redis THEN redis
                            ELSE IF ttl = 0 THEN RemoveKeys(redis, {key})
                            ELSE [redis EXCEPT ![key].ttl = ttl]
                /\ Returns(w, c, PyBool(key \in DOMAIN redis))
                /\ hist' = IF ttl = 0 THEN HDrop(HFault(hist, w, "none"), {key})
                           ELSE HFault(hist, w, "none")
             \/ /\ Returns(w, c, PyFalse)
                /\ hist' = HFault(hist, w, "cache")
                /\ UNCHANGED redis
    /\ UNCHANGED pc

\* clear_cache(pattern), first half: keys = KEYS pattern; True when there
\* are none.
ClearKeys(w) ==
    /\ FacadeCall(w)
    /\ \E prefix \in FacadePatterns :
         LET keys == {k \in DOMAIN redis : KeyMatches(k, prefix)}
             c == Call("clear_cache", prefix, PyNone, 0, keys, PyNone, FALSE)
         IN  \/ /\ keys = {}
                /\ Returns(w, c, PyTrue)
                /\ hist' = HFault(hist, w, "none")
                /\ UNCHANGED pc
             \/ /\ keys # {}
                /\ call' = [call EXCEPT ![w] = c]
                /\ hist' = HFault(hist, w, "none")
                /\ pc' = [pc EXCEPT ![w] = "clear_delete"]
             \/ /\ Returns(w, c, PyFalse)
                /\ hist' = HFault(hist, w, "cache")
                /\ UNCHANGED pc
    /\ UNCHANGED redis

\* clear_cache, second half: bool(DEL keys...), the number of keys that
\* were still there.
ClearDelete(w) ==
    /\ pc[w] = "clear_delete"
    /\ pc' = [pc EXCEPT ![w] = "idle"]
    /\ \/ /\ redis' = RemoveKeys(redis, call[w].keys)
          /\ Returns(w, call[w], PyBool(call[w].keys \cap DOMAIN redis # {}))
          /\ hist' = HDrop(hist, call[w].keys)
       \/ /\ Returns(w, call[w], PyFalse)
          /\ hist' = HFault(hist, w, "cache")
          /\ UNCHANGED redis
    /\ UNCHANGED <<store, nextId, cache, paginate, file, req, loc, resp, budget>>

\* get_cache_stats(): five counters of INFO; {} when INFO fails.
FacadeStats(w) ==
    /\ FacadeCall(w)
    /\ LET c == Call("get_cache_stats", <<>>, PyNone, 0, {}, PyNone, FALSE)
       IN  \/ /\ Returns(w, c, StatsMapping)
              /\ hist' = HFault(hist, w, "none")
           \/ /\ Returns(w, c, PyDict(<<>>))
              /\ hist' = HFault(hist, w, "cache")
    /\ UNCHANGED <<pc, redis>>

\* The timeout of an entry is over, or another client removes it.
RedisExpire ==
    /\ \E key \in DOMAIN redis : redis' = RemoveKeys(redis, {key})
    /\ hist' = HDrop(hist, (DOMAIN redis) \ (DOMAIN redis'))
    /\ UNCHANGED <<store, nextId, cache, paginate, file, pc, req, loc, resp,
                   budget, call>>

\* ---------------------------------------------------------------- time
\* A cache entry reaches its TTL and is gone.
Expire ==
    /\ \E key \in DOMAIN cache :
         cache' = [k \in (DOMAIN cache) \ {key} |-> cache[k]]
    /\ hist' = HInvalidate(hist, cache')
    /\ UNCHANGED <<store, nextId, paginate, file, pc, req, loc, resp, budget>>
    /\ UNCHANGED <<redis, call>>

\* Time passing without the entries it leaves expiring: they stay.
TickKeepsEntries ==
    /\ hist.now < MaxClock \/ cache # <<>>
    /\ hist.now < 2 * MaxClock
    /\ hist' = [hist EXCEPT !.now = @ + TickStep]
    /\ UNCHANGED <<store, nextId, cache, paginate, file, pc, req, loc, resp, budget>>
    /\ UNCHANGED <<redis, call>>

\* TickStep seconds pass: the entries stored ListTTL seconds ago or earlier
\* are gone.  Time is followed up to MaxClock and, beyond, for as long as
\* the cache holds an entry.
Tick ==
    /\ hist.now < MaxClock \/ cache # <<>>
    /\ LET t == hist.now + TickStep
           live == {k \in DOMAIN cache :
                       k \in DOMAIN hist.times => t < hist.times[k].set + ListTTL}
       IN  /\ cache' = [k \in live |-> cache[k]]
           /\ hist' = [(IF live = DOMAIN cache THEN hist
                         ELSE HInvalidate(hist, cache')) EXCEPT !.now = t]
    /\ UNCHANGED <<store, nextId, paginate, file, pc, req, loc, resp, budget>>
    /\ UNCHANGED <<redis, call>>

\* ------------------------------------------------------------ failures
\* cache.get raises: list has no handler of its own around the call, the
\* exception reaches "except Exception" and the request is answered 500.
ListGetFails(w) ==
    /\ pc[w] = "list_get"
    /\ Respond(w, Plain("list", 500))
    /\ hist' = HFault(hist, w, "cache")
    /\ UNCHANGED <<store, nextId, cache, paginate, file, budget>>
    /\ UNCHANGED <<redis, call>>

\* ListQueryFails with a handler that stores the empty result of the failed
\* query under the request's key.
ListQueryFailsCachesEmpty(w) ==
    /\ pc[w] = "list_query"
    /\ cache' = CacheSet(cache, GetCacheKey(req[w].query, "list"),
                         Payload(FALSE, <<>>))
    /\ Respond(w, Plain("list", 500))
    /\ hist' = HFault(hist, w, "store")
    /\ UNCHANGED <<store, nextId, paginate, file, budget>>
    /\ UNCHANGED <<redis, call>>

\* The store query raises: answered 500 before cache.set is reached.
ListQueryFails(w) ==
    /\ pc[w] = "list_query"
    /\ Respond(w, Plain("list", 500))
    /\ hist' = HFault(hist, w, "store")
    /\ UNCHANGED <<store, nextId, cache, paginate, file, budget>>
    /\ UNCHANGED <<redis, call>>

\* cache.set raises: the payload is computed and the request is answered 500.
ListSetFails(w) ==
    /\ pc[w] = "list_set"
    /\ Respond(w, Plain("list", 500))
    /\ hist' = HFault(hist, w, "cache")
    /\ UNCHANGED <<store, nextId, cache, paginate, file, budget>>
    /\ UNCHANGED <<redis, call>>

\* The store query of search raises.
SearchFails(w) ==
    /\ pc[w] = "search_query"
    /\ Respond(w, Plain("search", 500))
    /\ hist' = HFault(hist, w, "store")
    /\ UNCHANGED <<store, nextId, cache, paginate, file, budget>>
    /\ UNCHANGED <<redis, call>>

\* The response a write handler gives after _clear_related_caches.
AfterClear(w) ==
    CASE pc[w] = "create_clear" -> Plain("create", 201)
      [] pc[w] = "update_clear" -> Plain("update", 200)
      [] pc[w] = "destroy_clear" -> Plain("destroy", 204)
      [] pc[w] = "play_clear" ->
            Response("play", 200, FALSE, NoPayload, loc[w].inst.play_count, 0)
      [] OTHER -> Plain("rate", 200)

\* ClearFails under a request-wide transaction that the failure rolls back:
\* the newest row is gone again.
ClearFailsRollsBack(w) ==
    /\ \/ pc[w] = "create_clear" \/ pc[w] = "update_clear" \/ pc[w] = "destroy_clear"
       \/ pc[w] = "play_clear" \/ pc[w] = "rate_clear"
    /\ cache' = cache
    /\ store' = IF DOMAIN store = {} THEN store
                ELSE DeleteRow(store, CHOOSE i \in DOMAIN store :
                                          \A j \in DOMAIN store : j <= i)
    /\ hist' = HFault(hist, w, "cache")
    /\ Respond(w, AfterClear(w))
    /\ UNCHANGED <<nextId, paginate, file, budget>>
    /\ UNCHANGED <<redis, call>>

\* A delete_pattern of _clear_related_caches raises, the first one or, the
\* list entries gone, a later one: the exception is logged inside
\* _clear_related_caches and the handler goes on to its response.
ClearFails(w) ==
    /\ \/ pc[w] = "create_clear" \/ pc[w] = "update_clear" \/ pc[w] = "destroy_clear"
       \/ pc[w] = "play_clear" \/ pc[w] = "rate_clear"
    /\ \/ cache' = cache
       \/ cache' = DeletePattern(cache, "list")
    /\ hist' = HFault(HInvalidate(IF pc[w] = "play_clear"
                                  THEN HPlayed(hist, req[w].id) ELSE hist, cache'),
                      w, "cache")
    /\ Respond(w, AfterClear(w))
    /\ UNCHANGED <<store, nextId, paginate, file, budget>>
    /\ UNCHANGED <<redis, call>>

\* cache.clear() of load_data raises: nothing catches it before the
\* handler's "except Exception", which answers 500; the songs are stored.
LoadClearFails(w) ==
    /\ pc[w] = "load_clear"
    /\ Respond(w, Plain("load_data", 500))
    /\ hist' = HFault(hist, w, "cache")
    /\ UNCHANGED <<store, nextId, cache, paginate, file, budget>>
    /\ UNCHANGED <<redis, call>>

\* ------------------------------------------------------ specifications
ListSteps(w) == ListGet(w) \/ ListQuery(w) \/ ListSet(w)
CreateSteps(w) == CreateSave(w) \/ CreateClear(w)
UpdateSteps(w) == UpdateGet(w) \/ UpdateSave(w) \/ UpdateClear(w)
DestroySteps(w) == DestroyGet(w) \/ DestroyDelete(w) \/ DestroyClear(w)
PlaySteps(w) == PlayGet(w) \/ PlaySave(w) \/ PlayClear(w)
RateSteps(w) == RateGet(w) \/ RateSave(w) \/ RateClear(w)
LoadSteps(w) == LoadCheck(w) \/ LoadCount(w) \/ LoadRow(w) \/ LoadClear(w)
LoaderSteps(w) == LoaderClear(w) \/ LoaderRow(w) \/ LoaderEnd(w)

\* The whole service: every operation, over a file with one row the model's
\* validators would refuse and one row whose save fails.
ApiFiles == {<<RowHigh, RowBadKey>>}
Init == InitWith(Catalogs, ApiFiles, BOOLEAN)
Next ==
    \/ \E w \in Workers : Start(w, ApiOps)
    \/ \E w \in Workers : ListSteps(w)
    \/ \E w \in Workers : Search(w)
    \/ \E w \in Workers : Retrieve(w)
    \/ \E w \in Workers : CreateSteps(w)
    \/ \E w \in Workers : UpdateSteps(w)
    \/ \E w \in Workers : DestroySteps(w)
    \/ \E w \in Workers : PlaySteps(w)
    \/ \E w \in Workers : RateSteps(w)
    \/ \E w \in Workers : LoadSteps(w)
    \/ \E w \in Workers : LoaderSteps(w)
    \/ Expire
Spec == Init /\ [][Next]_vars

\* The play requests on a catalog of one song, with the reads around them.
InitPlay == InitWith({<<FirstSong>>}, ApiFiles, BOOLEAN)
NextPlay ==
    \/ \E w \in Workers : Start(w, PlayOps)
    \/ \E w \in Workers : ListSteps(w)
    \/ \E w \in Workers : Retrieve(w)
    \/ \E w \in Workers : PlaySteps(w)
SpecPlay == InitPlay /\ [][NextPlay]_vars

\* The rate requests, every input of Ratings, with the play requests and
\* the list reads that fill the cache.
InitRate == InitWith(Catalogs, ApiFiles, BOOLEAN)
NextRate ==
    \/ \E w \in Workers : Start(w, RateOps)
    \/ \E w \in Workers : ListSteps(w)
    \/ \E w \in Workers : PlaySteps(w)
    \/ \E w \in Workers : RateSteps(w)
    \/ Expire
SpecRate == InitRate /\ [][NextRate]_vars

\* The bulk loads, over every file of Files, with the list reads of a
\* paginated deployment.
InitLoad == InitWith(Catalogs, Files, {TRUE})
NextLoad ==
    \/ \E w \in Workers : Start(w, LoadOps)
    \/ \E w \in Workers : ListSteps(w)
    \/ \E w \in Workers : LoadSteps(w)
    \/ \E w \in Workers : LoaderSteps(w)
SpecLoad == InitLoad /\ [][NextLoad]_vars

\* search over a catalog with albums and lyrics, songs being deleted
\* meanwhile.
AlbumSong ==
    [Song(<<"S">>, <<"B">>, None, 0, None, None, None)
        EXCEPT !.album = Some(<<"m", "1">>)]
LyricSong ==
    [Song(<<"U">>, <<"B">>, None, 0, None, None, None)
        EXCEPT !.lyrics = Some(<<"o", "X", "y">>)]
SearchCatalogs == {<<>>, <<FirstSong, AlbumSong, LyricSong>>}
DestroyOps == {"destroy"}
InitSearch == InitWith(SearchCatalogs, ApiFiles, BOOLEAN)
NextSearch ==
    \/ \E w \in Workers : SearchStart(w)
    \/ \E w \in Workers : Search(w)
    \/ \E w \in Workers : Start(w, DestroyOps)
    \/ \E w \in Workers : DestroySteps(w)
SpecSearch == InitSearch /\ [][NextSearch]_vars

\* list and destroy with time passing: the cache layer removes an entry
\* when its timeout is over, whatever the workers do.
NextTime ==
    \/ \E w \in Workers : Start(w, TimeOps)
    \/ \E w \in Workers : ListSteps(w)
    \/ \E w \in Workers : DestroySteps(w)
    \/ Tick
SpecTime == Init /\ [][NextTime]_vars /\ WF_vars(Tick)
\* The two rankings, with the requests that change ratings, play counts
\* and the catalog.
PlayedSong == Song(<<"S">>, <<"B">>, None, 2, None, None, None)
RankCatalogs == {<<>>, <<FirstSong, PlayedSong>>}
InitRank == InitWith(RankCatalogs, ApiFiles, BOOLEAN)
NextRank ==
    \/ \E w \in Workers : Start(w, RankOps)
    \/ \E w \in Workers : TopRated(w)
    \/ \E w \in Workers : MostPlayed(w)
    \/ \E w \in Workers : RateSteps(w)
    \/ \E w \in Workers : PlaySteps(w)
    \/ \E w \in Workers : CreateSteps(w)
SpecRank == InitRank /\ [][NextRank]_vars

\* stats, with the requests that change what it counts.
StatsSteps(w) ==
    \/ StatsTotal(w) \/ StatsPlays(w) \/ StatsAverage(w) \/ StatsGenres(w)
    \/ StatsRated(w) \/ StatsUnrated(w)
NextStats ==
    \/ \E w \in Workers : Start(w, StatsOps)
    \/ \E w \in Workers : StatsSteps(w)
    \/ \E w \in Workers : CreateSteps(w)
    \/ \E w \in Workers : DestroySteps(w)
    \/ \E w \in Workers : RateSteps(w)
    \/ \E w \in Workers : PlaySteps(w)
SpecStats == InitRank /\ [][NextStats]_vars

\* RedisClient called by two workers against one Redis server that other
\* clients use too; the server starts empty or with two keys of one family.
FacadeStores ==
    {<<>>,
     (<<"a", "1">> :> RedisEntry(<<"h", "i">>, 60))
        @@ (<<"a", "2">> :> RedisEntry(<<"7">>, 60))}
InitFacade ==
    /\ store = <<>>
    /\ nextId = 1
    /\ cache = <<>>
    /\ paginate = TRUE
    /\ file = <<>>
    /\ pc = [w \in Workers |-> "idle"]
    /\ req = [w \in Workers |-> NoRequest]
    /\ loc = [w \in Workers |-> NoLocal]
    /\ resp = [w \in Workers |-> NoResponse]
    /\ budget = 0
    /\ hist = NoHistory
    /\ redis \in FacadeStores
    /\ call = [w \in Workers |-> NoCall]
NextFacade ==
    \/ \E w \in Workers : FacadeSet(w)
    \/ \E w \in Workers : FacadeGet(w)
    \/ \E w \in Workers : FacadeDelete(w)
    \/ \E w \in Workers : FacadeExists(w)
    \/ \E w \in Workers : FacadeExpire(w)
    \/ \E w \in Workers : ClearKeys(w)
    \/ \E w \in Workers : ClearDelete(w)
    \/ \E w \in Workers : FacadeStats(w)
    \/ RedisExpire
SpecFacade == InitFacade /\ [][NextFacade]_vars

\* list requests over the query strings KeyQueries.
NextKey ==
    \/ \E w \in Workers : KeyStart(w)
    \/ \E w \in Workers : ListSteps(w)
SpecKey == Init /\ [][NextKey]_vars

\* The API with a cache layer and a store whose calls may fail.
NextFail ==
    \/ \E w \in Workers : Start(w, FailOps)
    \/ \E w \in Workers : ListSteps(w)
    \/ \E w \in Workers : Search(w)
    \/ \E w \in Workers : CreateSteps(w)
    \/ \E w \in Workers : UpdateSteps(w)
    \/ \E w \in Workers : DestroySteps(w)
    \/ \E w \in Workers : PlaySteps(w)
    \/ \E w \in Workers : RateSteps(w)
    \/ \E w \in Workers : LoadSteps(w)
    \/ \E w \in Workers : ListGetFails(w)
    \/ \E w \in Workers : ListQueryFails(w)
    \/ \E w \in Workers : ListSetFails(w)
    \/ \E w \in Workers : SearchFails(w)
    \/ \E w \in Workers : ClearFails(w)
    \/ \E w \in Workers : LoadClearFails(w)
SpecFail == Init /\ [][NextFail]_vars

\* -------------------------------------------------------------- claims
\* C1: when a mutating request (create, update, delete, rate, play,
\* load_data, the standalone loader) has committed its store mutation and
\* is over, no list, search or stats cache entry that was in the cache
\* when the mutation committed is still there.
InvalidatedFamilies == {"list", "search", "stats"}
StaleKeys(w) ==
    {k \in hist.dirty[w] : \E fam \in InvalidatedFamilies : MatchesPattern(k, fam)}
C1_WriteInvalidation ==
    \A w \in Workers :
        pc[w] = "idle" /\ resp[w].op \in WriteOps => StaleKeys(w) = {}

\* C2: a read answered after an identical read, with no write and no expiry
\* between the two, returns the payload of the first and comes from the cache.
C2_ReadThenRead ==
    \A w \in Workers :
        pc[w] = "idle" /\ resp[w].op \in CachedReadOps /\ hist.prior[w] # <<>>
            => resp[w].hit /\ resp[w].payload = hist.prior[w][1]

\* C3: when the play requests on a song are over, its play_count is the
\* count it had when the first of them began plus the number of play
\* requests answered, however their steps and the reads interleaved.
C3_PlayCountAdds ==
    (\A w \in Workers : pc[w] = "idle") =>
        \A i \in Ids \cap DOMAIN store :
            hist.first[i] # <<>> =>
                store[i].play_count = hist.first[i][1] + hist.played[i]

\* C4: no step of a play, rate or list request lowers the play_count of a
\* stored song.
C4_PlayCountMonotone ==
    [][\A i \in DOMAIN store \cap DOMAIN store' :
          store'[i].play_count >= store[i].play_count]_vars

\* C5: a rate request on an existing song goes on to store the rating and is
\* answered 200 when the rating is a number from 0.0 to 5.0, both bounds
\* included, and is answered 400 when the number is below 0.0 or above 5.0,
\* when no rating is sent and when the rating is no number.  The number of
\* an input is the one Python reads in it: a JSON number is itself, true and
\* false are 1 and 0, the text "4.5" is 4.5 and "6" is 6; "ab", "nan", a list
\* and a missing rating have none.
C5_Number(rating) ==
    CASE rating.kind = "num" -> <<rating.num>>
      [] rating.kind = "bool" -> <<rating.num * 1000>>
      [] rating.kind = "str" /\ rating.text = <<"4", ".", "5">> -> <<4500>>
      [] rating.kind = "str" /\ rating.text = <<"6">> -> <<6000>>
      [] OTHER -> <<>>
C5_Accepted(rating) ==
    /\ C5_Number(rating) # <<>>
    /\ 0 <= C5_Number(rating)[1]
    /\ C5_Number(rating)[1] <= 5000
C5_Step(w) ==
    /\ pc[w] = "rate_get" /\ pc'[w] # "rate_get" /\ req[w].id \in DOMAIN store =>
          IF C5_Accepted(req[w].rating)
          THEN pc'[w] = "rate_save"
          ELSE pc'[w] = "idle" /\ resp'[w].op = "rate" /\ resp'[w].status = 400
    /\ pc[w] = "rate_save" /\ pc'[w] # "rate_save" =>
          /\ C5_Accepted(req[w].rating)
          /\ req[w].id \in DOMAIN store'
          /\ store'[req[w].id].rating # None
          /\ 10 * store'[req[w].id].rating[1] - C5_Number(req[w].rating)[1] \in -5..5
    /\ pc[w] = "rate_clear" /\ pc'[w] # "rate_clear" =>
          /\ C5_Accepted(req[w].rating)
          /\ resp'[w].op = "rate" /\ resp'[w].status = 200
C5_RateBoundary == [][\A w \in Workers : C5_Step(w)]_vars
\* One rate was answered 200 and left 5.00 on the song, another was
\* answered 400.
C5_Witness ==
    /\ \E w \in Workers : resp[w].op = "rate" /\ resp[w].status = 200
    /\ \E w \in Workers : resp[w].op = "rate" /\ resp[w].status = 400
    /\ \E i \in DOMAIN store : store[i].rating = <<500>>

\* C6: a rate request answered 400 has changed no field of any stored song
\* and removed no cache entry: neither the step that takes the request nor
\* the step that answers 400 changes the store or the cache.
C6_Step(w) ==
    /\ pc[w] = "idle" /\ pc'[w] = "rate_get" => store' = store /\ cache' = cache
    /\ pc[w] = "rate_get" /\ pc'[w] = "idle" /\ resp'[w].status = 400 =>
          store' = store /\ cache' = cache
C6_RejectedRateNoEffect == [][\A w \in Workers : C6_Step(w)]_vars
\* A rate was answered 400 while the cache held an entry and the song its
\* first rating.
C6_Witness ==
    /\ \E w \in Workers : resp[w].op = "rate" /\ resp[w].status = 400
    /\ cache # <<>>
    /\ store = <<FirstSong>>

\* C7: every stored song has no rating or a rating from 0.00 to 5.00.
C7_RatingInRange ==
    \A i \in DOMAIN store :
        store[i].rating = <<>> \/ (0 <= store[i].rating[1] /\ store[i].rating[1] <= 500)
\* A bulk-loaded song rated 5.00 by a request, after another rate was refused.
C7_Witness ==
    /\ \E i \in DOMAIN store : store[i].rating = <<500>> /\ store[i].artist = ArtistOf(0)
    /\ \E w \in Workers : resp[w].op = "rate" /\ resp[w].status = 200

\* C8: every stored song has no danceability or one from 0.0 to 1.0, the
\* bulk-loaded songs included.
C8_UnitFeaturesInRange ==
    \A i \in DOMAIN store :
        \/ store[i].danceability = <<>>
        \/ (0 <= store[i].danceability[1] /\ store[i].danceability[1] <= 100)

\* C9: load_data answers 400 exactly when its check finds a song, changing
\* neither the store nor the cache, and of the load_data requests in
\* progress at most one has stored songs.
C9_Loading == {w \in Workers : (pc[w] = "load_row" \/ pc[w] = "load_clear") /\ loc[w].created > 0}
C9_Step(w) ==
    /\ pc[w] = "load_check" /\ pc'[w] # "load_check" =>
          (pc'[w] = "load_count" <=> DOMAIN store # {})
    /\ pc[w] = "load_count" /\ pc'[w] # "load_count" =>
          /\ resp'[w].op = "load_data" /\ resp'[w].status = 400
          /\ store' = store /\ cache' = cache
C9_LoadOnlyIntoEmpty ==
    [][(\A w \in Workers : C9_Step(w)) /\ Cardinality(C9_Loading') <= 1]_vars

\* C10: a load_data answered 201 has gone through every record of the file,
\* its songs_created is the number of songs it stored and its total_songs
\* the number of records it went through, songs_created <= total_songs; the
\* loader that reaches its summary has gone through every normalized record.
C10_LoadCounts ==
    \A w \in Workers :
        /\ resp[w].op = "load_data" /\ resp[w].status = 201 =>
              /\ hist.attempted[w] = Len(file)
              /\ resp[w].count = hist.stored[w]
              /\ resp[w].total = hist.attempted[w]
              /\ resp[w].count <= resp[w].total
        /\ resp[w].op = "loader" /\ hist.attempted[w] > 0 =>
              /\ hist.attempted[w] = Len(Normalize(file))
              /\ resp[w].count = hist.stored[w]
\* A load answered 201 with one song created of two records, the first of
\* which could not be saved.
C10_Witness ==
    /\ Len(file) = 2 /\ ~file[1].key.isInt
    /\ \E w \in Workers :
          /\ resp[w].op = "load_data" /\ resp[w].status = 201
          /\ resp[w].count = 1 /\ resp[w].total = 2

\* C11: a bulk load of a file whose n records are all valid stores n songs,
\* one for each record, and the song stored for a record has the record's
\* title and floor(duration_ms / 1000) seconds as its duration.
C11_Valid(row) ==
    /\ row.title # <<>> /\ row.danceability >= 0 /\ row.duration_ms >= 0
    /\ row.key.isInt
C11_AllValid == \A n \in 1..Len(file) : C11_Valid(file[n])
C11_OwnRow(w) ==
    /\ nextId \in DOMAIN store'
    /\ store'[nextId].title = file[loc[w].idx + 1].title
    /\ store'[nextId].duration = <<file[loc[w].idx + 1].duration_ms \div 1000>>
C11_Step(w) ==
    /\ (pc[w] = "load_row" \/ pc[w] = "loader_row") /\ loc'[w].idx = loc[w].idx + 1 =>
          /\ loc'[w].created = loc[w].created + 1
          /\ C11_OwnRow(w)
    /\ (pc[w] = "load_clear" \/ pc[w] = "loader_end") /\ pc'[w] = "idle" =>
          /\ hist'.stored[w] = Len(file)
          /\ resp'[w].count = Len(file)
C11_BulkLoadDurations == [][C11_AllValid => \A w \in Workers : C11_Step(w)]_vars
\* A load answered 201 with two songs of two records whose durations, 1999
\* and 3000 ms, are stored as 1 and 3 seconds.
C11_Witness ==
    /\ Len(file) = 2 /\ C11_AllValid
    /\ file[1].duration_ms = 1999 /\ file[2].duration_ms = 3000
    /\ \E w \in Workers : resp[w].op = "load_data" /\ resp[w].status = 201
    /\ \E i, j \in DOMAIN store : store[i].duration = <<1>> /\ store[j].duration = <<3>>

\* C12: a create request, or an update request on a stored song, whose body
\* lacks a required field or carries a rating outside 0.0..5.0 or a
\* danceability outside 0.0..1.0 is answered 400, and its step changes
\* neither the store nor the cache.
C12_Invalid(body, partial) ==
    \/ ~partial /\ (body.title = <<>> \/ body.artist = <<>>)
    \/ body.rating # <<>> /\ ~(0 <= body.rating[1] /\ body.rating[1] <= 5000)
    \/ body.danceability # <<>>
          /\ ~(0 <= body.danceability[1] /\ body.danceability[1] <= 100)
C12_Refused(w) ==
    /\ pc'[w] = "idle" /\ resp'[w].status = 400
    /\ store' = store /\ cache' = cache
C12_Step(w) ==
    /\ pc[w] = "create_save" /\ pc'[w] # "create_save"
          /\ C12_Invalid(req[w].body, FALSE) => C12_Refused(w)
    /\ pc[w] = "update_get" /\ pc'[w] # "update_get" /\ req[w].id \in DOMAIN store
          /\ C12_Invalid(req[w].body, TRUE) => C12_Refused(w)
C12_InvalidBodyRefused == [][\A w \in Workers : C12_Step(w)]_vars

\* C13: a retrieve, update, delete, rate or play request on an id that is
\* not in the store, never created or deleted earlier, is answered 404, and
\* its step changes neither the store nor the cache.
C13_AtLookup(w) ==
    \/ pc[w] = "retrieve_get" \/ pc[w] = "update_get" \/ pc[w] = "destroy_get"
    \/ pc[w] = "rate_get" \/ pc[w] = "play_get"
C13_Step(w) ==
    C13_AtLookup(w) /\ pc'[w] # pc[w] /\ req[w].id \notin DOMAIN store =>
        /\ pc'[w] = "idle" /\ resp'[w].status = 404
        /\ store' = store /\ cache' = cache
C13_UnknownIdNotFound == [][\A w \in Workers : C13_Step(w)]_vars

\* C14: a failure of the cache layer never makes an API request fail: a
\* request in which a cache get, set, pattern delete or clear raised still
\* ends with a success status.
C14_Step(w) ==
    (pc[w] # "idle" /\ pc'[w] = "idle" /\ hist'.fault[w] = "cache")
        => (resp'[w].status >= 200 /\ resp'[w].status < 300)
C14_CacheFailureNeverFails == [][\A w \in Workers : C14_Step(w)]_vars

\* C15: when the cache layer fails while a mutating operation invalidates
\* the cache, the mutation already committed stays committed: the failing
\* step leaves every row of the store as it is, whichever of create, update,
\* destroy, rate, play or load_data it belongs to.
C15_Clearing(w) ==
    \/ pc[w] = "create_clear" \/ pc[w] = "update_clear" \/ pc[w] = "destroy_clear"
    \/ pc[w] = "play_clear" \/ pc[w] = "rate_clear" \/ pc[w] = "load_clear"
C15_Step(w) ==
    (C15_Clearing(w) /\ pc'[w] = "idle" /\ hist'.fault[w] = "cache")
        => (store' = store /\ nextId' = nextId)
C15_FailedInvalidationKeepsCommit == [][\A w \in Workers : C15_Step(w)]_vars

\* A create answered 201 after its invalidation failed, the created row in
\* the store, and a bulk load whose cache.clear() failed, its song stored.
C15_Witness ==
    \E w \in Workers, v \in Workers :
        /\ pc[w] = "idle" /\ hist.fault[w] = "cache"
        /\ resp[w].op = "create" /\ resp[w].status = 201
        /\ pc[v] = "idle" /\ hist.fault[v] = "cache"
        /\ resp[v].op = "load_data" /\ hist.stored[v] > 0
        /\ Cardinality(DOMAIN store) >= 2

\* C16: when the store query of a read request fails, the request ends with
\* a 500 response and the cache is exactly as it was: no entry is created or
\* replaced under the request's key.
C16_Step(w) ==
    (/\ pc[w] = "list_query" \/ pc[w] = "search_query"
     /\ pc'[w] = "idle"
     /\ hist'.fault[w] = "store")
        => (resp'[w].status = 500 /\ cache' = cache)
C16_FailedQueryLeavesCache == [][\A w \in Workers : C16_Step(w)]_vars

\* A list answered 500 after its query failed while the other worker's
\* list had filled the cache, under the same key or another one.
C16_Witness ==
    \E w \in Workers :
        /\ pc[w] = "idle" /\ hist.fault[w] = "store"
        /\ resp[w].op = "list" /\ resp[w].status = 500
        /\ DOMAIN cache # {}

\* The name-to-value mapping a query string forms, as the set of its
\* (name, value) pairs, the last value of a repeated name winning.
C17_Mapping(query) ==
    {query[i] : i \in {j \in DOMAIN query :
                          \A k \in DOMAIN query : k > j => query[k][1] # query[j][1]}}
C17_InFlight(w) == pc[w] # "idle" /\ req[w].op = "list"

\* C17: the cache key is a function of (operation, parameter mapping): two
\* requests whose query parameters form the same mapping get the same key
\* for the same operation, in whatever order the parameters came; the key
\* names its operation, and so does every key in the cache.
C17_KeyOfMapping ==
    /\ \A w \in Workers, v \in Workers, a \in KeyActions :
          (C17_InFlight(w) /\ C17_InFlight(v)
              /\ C17_Mapping(req[w].query) = C17_Mapping(req[v].query))
            => /\ GetCacheKey(req[w].query, a) = GetCacheKey(req[v].query, a)
               /\ GetCacheKey(req[w].query, a).action = a
    /\ \A k \in DOMAIN cache : k.action = "list"

\* Two list requests past their cache lookup whose parameters came in
\* different orders and form the same mapping of two names.
C17_Witness ==
    \E w \in Workers, v \in Workers :
        /\ pc[w] = "list_set" /\ pc[v] = "list_set"
        /\ req[w].query # req[v].query
        /\ C17_Mapping(req[w].query) = C17_Mapping(req[v].query)
        /\ Cardinality(C17_Mapping(req[w].query)) = 2

\* C18: two (operation, parameter mapping) pairs that differ in the
\* operation, in a parameter name or in a parameter value get different
\* keys, "action" being a name a client may send like any other.
C18_DistinctInputsDistinctKeys ==
    \A w \in Workers, v \in Workers, a \in KeyActions, b \in KeyActions :
        (C17_InFlight(w) /\ C17_InFlight(v)
            /\ (a # b \/ C17_Mapping(req[w].query) # C17_Mapping(req[v].query)))
          => GetCacheKey(req[w].query, a) # GetCacheKey(req[v].query, b)

\* The songs of the store one of whose title, artist, album or lyrics
\* contains q ignoring case; every song when q is empty after trimming.
C19_Expected(st, query) ==
    LET given == {i \in DOMAIN query : query[i][1] = "q"}
        q == IF given = {} THEN <<>>
             ELSE Strip(query[CHOOSE i \in given : \A j \in given : j <= i][2])
    IN  IF q = <<>> THEN DOMAIN st
        ELSE {i \in DOMAIN st :
                 \/ IContains(st[i].title, q) \/ IContains(st[i].artist, q)
                 \/ (st[i].album # None /\ IContains(st[i].album[1], q))
                 \/ (st[i].lyrics # None /\ IContains(st[i].lyrics[1], q))}
C19_Returned(r) == {r.payload.results[n].id : n \in DOMAIN r.payload.results}

\* C19: search with a q that is non-empty after trimming returns exactly
\* the songs whose title, artist, album or lyrics contains q ignoring case;
\* with an empty or missing q it returns every song.
C19_Step(w) ==
    (pc[w] = "search_query" /\ pc'[w] = "idle" /\ resp'[w].status = 200)
        => C19_Returned(resp'[w]) = C19_Expected(store, req[w].query)
C19_SearchFields == [][\A w \in Workers : C19_Step(w)]_vars

\* A payload returned from the cache was stored at most ListTTL seconds
\* before, and was computed at most ListTTL seconds before.
C20_StoredWithinTTL ==
    \A w \in Workers : hist.age[w] # <<>> => hist.age[w][1].stored <= ListTTL
C20_ComputedWithinTTL ==
    \A w \in Workers : hist.age[w] # <<>> => hist.age[w][1].computed <= ListTTL
\* An entry that no longer agrees with the store, as the one a read racing
\* a write stores after the write's invalidation, is removed in the end.
C20_StaleEntry(q) ==
    /\ GetCacheKey(q, "list") \in DOMAIN cache
    /\ cache[GetCacheKey(q, "list")] # ListPayload(store, q, paginate)
C20_StaleEntryExpires ==
    \A q \in Queries : C20_StaleEntry(q) ~> (GetCacheKey(q, "list") \notin DOMAIN cache)

C21_Step(w) ==
    (pc[w] = "update_save" /\ pc'[w] = "update_clear" /\ req[w].id \in DOMAIN store)
      => LET old == store[req[w].id]
             new == store'[req[w].id]
             body == req[w].body
         IN  /\ req[w].id \in DOMAIN store'
             /\ body.title = None => new.title = old.title
             /\ body.artist = None => new.artist = old.artist
             /\ body.rating = None => new.rating = old.rating
             /\ body.danceability = None => new.danceability = old.danceability
             /\ new.play_count = old.play_count
             /\ new.key = old.key /\ new.duration = old.duration
             /\ new.album = old.album /\ new.lyrics = old.lyrics
C21_UpdateFrame == [][\A w \in Workers : C21_Step(w)]_vars

\* What each facade method returns when it fails.
C22_FailureValue(op) ==
    CASE op = "get" -> PyNone
      [] op = "get_cache_stats" -> PyDict(<<>>)
      [] OTHER -> PyFalse

\* C22: no facade operation raises to its caller when the cache service
\* fails or the value cannot be serialized: set, delete, exists, expire and
\* clear_cache return false, get returns None, get_cache_stats returns an
\* empty mapping.
C22_FacadeNeverRaises ==
    \A w \in Workers :
        /\ ~call[w].raised
        /\ (pc[w] = "idle" /\ call[w].op # "none" /\ hist.fault[w] # "none")
              => call[w].result = C22_FailureValue(call[w].op)

\* A set that returned False for a list json.dumps cannot encode, and a get
\* that returned None because the service failed.
C22_Witness ==
    \E w \in Workers, v \in Workers :
        /\ call[w].op = "set" /\ hist.fault[w] = "value"
        /\ call[w].value = PyList(<<PyObject>>) /\ call[w].result = PyFalse
        /\ call[v].op = "get" /\ hist.fault[v] = "cache" /\ call[v].result = PyNone
        /\ call[v].key \in DOMAIN redis

\* C23: a successful set(key, value) of a mapping, a sequence or a plain
\* string followed by get(key), with no expiry, deletion or overwrite in
\* between, returns a value equal to the one stored; get of an absent key
\* returns None.
C23_Step(w) ==
    (/\ pc[w] = "idle" /\ call'[w] # call[w]
     /\ call'[w].op = "get" /\ hist'.fault[w] = "none")
      => LET key == call'[w].key
         IN  /\ key \notin DOMAIN redis => call'[w].result = PyNone
             /\ (/\ key \in DOMAIN redis /\ key \in DOMAIN hist.put
                 /\ \/ hist.put[key].kind = "dict" \/ hist.put[key].kind = "list"
                    \/ hist.put[key].kind = "str")
                  => call'[w].result = hist.put[key]
C23_RoundTrip == [][\A w \in Workers : C23_Step(w)]_vars

\* C24: clear_cache(pattern) returns true whenever the cache service
\* reports no error, whether or not a key matched, also when the matched
\* keys expire or are deleted by another client between the enumeration and
\* the bulk delete; on return no key that matched when the call started is
\* present, and the keys that do not match are unchanged.
C24_Step(w) ==
    (/\ call'[w] # call[w] /\ pc'[w] = "idle"
     /\ call'[w].op = "clear_cache" /\ hist'.fault[w] = "none")
      => /\ call'[w].result = PyTrue
         /\ call'[w].keys \cap DOMAIN redis' = {}
         /\ \A k \in DOMAIN redis :
               ~KeyMatches(k, call'[w].key) => (k \in DOMAIN redis' /\ redis'[k] = redis[k])
C24_ClearCacheTrue == [][\A w \in Workers : C24_Step(w)]_vars

C25_Ids(r) == {r.payload.results[n].id : n \in DOMAIN r.payload.results}
C25_NonIncreasing(s) ==
    \A i \in DOMAIN s, j \in DOMAIN s : i < j => s[i] >= s[j]

\* C25: top_rated returns exactly the songs that have a rating, in
\* non-increasing order of rating, and most_played returns all songs in
\* non-increasing order of play_count, each computed from the store state at
\* the time of the request.
C25_Step(w) ==
    /\ (pc[w] = "top_rated_query" /\ pc'[w] = "idle")
         => LET res == resp'[w].payload.results
            IN  /\ resp'[w].status = 200
                /\ Len(res) = Cardinality(C25_Ids(resp'[w]))
                /\ C25_Ids(resp'[w]) = {i \in DOMAIN store : store[i].rating # None}
                /\ \A n \in DOMAIN res : res[n].rating = store[res[n].id].rating
                /\ C25_NonIncreasing([n \in DOMAIN res |-> res[n].rating[1]])
    /\ (pc[w] = "most_played_query" /\ pc'[w] = "idle")
         => LET res == resp'[w].payload.results
            IN  /\ resp'[w].status = 200
                /\ Len(res) = Cardinality(C25_Ids(resp'[w]))
                /\ C25_Ids(resp'[w]) = DOMAIN store
                /\ \A n \in DOMAIN res : res[n].play_count = store[res[n].id].play_count
                /\ C25_NonIncreasing([n \in DOMAIN res |-> res[n].play_count])
C26_StatsConsistent ==
    \A w \in Workers :
        (resp[w].op = "stats" /\ resp[w].status = 200)
          => LET s == resp[w].payload
             IN  /\ s.songs_with_ratings + s.songs_without_ratings = s.total_songs
                 /\ s.songs_without_ratings >= 0
                 /\ s.total_songs = 0 => s.total_plays = 0

\* The step is worker w's cache fill under key, storing its whole payload.
C27_Fill(w, key) ==
    /\ pc[w] = "list_set" /\ pc'[w] = "idle"
    /\ GetCacheKey(req[w].query, "list") = key
    /\ cache'[key] = loc[w].pay /\ resp'[w].payload = loc[w].pay
\* The step is the invalidation of a mutating operation.
C27_Invalidation(w) ==
    /\ \/ pc[w] = "create_clear" \/ pc[w] = "update_clear" \/ pc[w] = "destroy_clear"
       \/ pc[w] = "play_clear" \/ pc[w] = "rate_clear" \/ pc[w] = "load_clear"
    /\ pc'[w] = "idle"

\* C27: an entry becomes present, or gets another value, only through the
\* cache fill of a list read that missed, which stores the whole response
\* payload of that read; it becomes absent only through expiry or through
\* the invalidation of a mutating operation; no mutating operation creates
\* or rewrites an entry.
C27_Step ==
    \A key \in (DOMAIN cache) \cup (DOMAIN cache') :
        /\ (key \in DOMAIN cache' /\ (key \notin DOMAIN cache \/ cache'[key] # cache[key]))
              => \E w \in Workers : C27_Fill(w, key)
        /\ (key \in DOMAIN cache /\ key \notin DOMAIN cache')
              => \/ pc' = pc
                 \/ \E w \in Workers : C27_Invalidation(w)
C27_EntryLifeCycle == [][C27_Step]_vars

\* An entry filled by a list read that missed, in place after a create
\* answered 201 and its invalidation.
C27_Witness ==
    \E w \in Workers, v \in Workers :
        /\ resp[w].op = "list" /\ resp[w].status = 200 /\ ~resp[w].hit
        /\ resp[v].op = "create" /\ resp[v].status = 201
        /\ \E key \in DOMAIN cache : cache[key] = resp[w].payload
        /\ Cardinality(DOMAIN store) = 2

\* C28: the write of a rate request changes only the rating of its song,
\* every other field keeping the value the store held just before the
\* write, also when a play request committed since the rate request read
\* the song; the write of a play request changes only play_count.
C28_Step(w) ==
    /\ (pc[w] = "rate_save" /\ pc'[w] = "rate_clear" /\ req[w].id \in DOMAIN store)
          => store' = [store EXCEPT ![req[w].id].rating = loc[w].inst.rating]
    /\ (pc[w] = "play_save" /\ pc'[w] = "play_clear")
          => store' = [store EXCEPT ![req[w].id].play_count = store'[req[w].id].play_count]
C28_RateChangesOnlyRating == [][\A w \in Workers : C28_Step(w)]_vars

\* C29: a list read that finds an entry under its cache key answers with
\* that entry and does not go on to query the store, whatever the entry
\* holds, an empty result list without envelope included.
C29_Step(w) ==
    LET key == GetCacheKey(req[w].query, "list")
    IN  (pc[w] = "list_get" /\ pc'[w] # "list_get" /\ key \in DOMAIN cache)
           => /\ pc'[w] = "idle"
              /\ resp'[w].hit
              /\ resp'[w].payload = cache[key]
C29_StoredEntryIsServed == [][\A w \in Workers : C29_Step(w)]_vars

\* C30: a song the standalone loader stores takes its title, duration and
\* key from one and the same row of the file, also when an earlier row was
\* skipped as invalid.
C30_FromRow(song, row) ==
    /\ song.title = row.title
    /\ song.duration = Some(ParseDuration(row.duration_ms))
    /\ song.key = Some(row.key.val)
C30_Step(w) ==
    (pc[w] = "loader_row" /\ nextId' # nextId)
        => \E r \in 1..Len(file) : C30_FromRow(store'[nextId], file[r])
C30_OneSourceRow == [][\A w \in Workers : C30_Step(w)]_vars

====
